---- MODULE Spec2Model ----
(***************************************************************************)
(* A model of st3v/ocr: the OCR client (client.go), the output pipeline    *)
(* of the command (main.go) and the vision-analysis call (AnalyzeImage).   *)
(*                                                                         *)
(* Strings are sequences of one-character strings, so that the string      *)
(* operations of the code (strings.Index, strings.Contains, TrimSuffix,    *)
(* base64, JSON parsing and formatting) are computed, not assumed.         *)
(***************************************************************************)
EXTENDS Integers, Sequences, FiniteSets, TLC

(***************************************************************************)
(* Bounds of the model.                                                    *)
(***************************************************************************)
MaxPages == 2
MaxImages == 2

\* F(v), with v evaluated once whatever the number of uses F makes of it
Bind(v, F(_)) == CHOOSE y \in {F(x) : x \in {v}} : TRUE

(***************************************************************************)
(* Go strings package, on sequences of characters.                         *)
(***************************************************************************)
\* strings.HasPrefix(s, p)
HasPrefix(s, p) ==
    /\ Len(p) <= Len(s)
    /\ SubSeq(s, 1, Len(p)) = p

\* strings.HasSuffix(s, p)
HasSuffix(s, p) ==
    /\ Len(p) <= Len(s)
    /\ SubSeq(s, Len(s) - Len(p) + 1, Len(s)) = p

\* the positions (1-based) at which sub occurs in s
Occurrences(s, sub) ==
    {i \in 1..(Len(s) - Len(sub) + 1) : SubSeq(s, i, i + Len(sub) - 1) = sub}

\* strings.Contains(s, sub)
Contains(s, sub) == Occurrences(s, sub) # {}

\* strings.Index(s, sub): 0-based index of the first occurrence, -1 if none
Index(s, sub) ==
    IF Occurrences(s, sub) = {} THEN -1
    ELSE (CHOOSE i \in Occurrences(s, sub) : \A j \in Occurrences(s, sub) : i <= j) - 1

\* strings.LastIndex(s, sub): 0-based index of the last occurrence, -1 if none
LastIndex(s, sub) ==
    IF Occurrences(s, sub) = {} THEN -1
    ELSE (CHOOSE i \in Occurrences(s, sub) : \A j \in Occurrences(s, sub) : i >= j) - 1

\* strings.TrimSuffix(s, suffix)
TrimSuffix(s, suffix) ==
    IF HasSuffix(s, suffix) THEN SubSeq(s, 1, Len(s) - Len(suffix)) ELSE s

\* s[from:] with a 0-based from
SliceFrom(s, from) == SubSeq(s, from + 1, Len(s))

\* s[:to] with a 0-based, exclusive to
SliceTo(s, to) == SubSeq(s, 1, to)

\* the characters strings.TrimSpace removes
IsSpace(c) == c \in {" ", "\n", "\t", "\r"}

RECURSIVE TrimLeft(_)
TrimLeft(s) ==
    IF s # <<>> /\ IsSpace(Head(s)) THEN TrimLeft(Tail(s)) ELSE s

RECURSIVE TrimRight(_)
TrimRight(s) ==
    IF s # <<>> /\ IsSpace(s[Len(s)]) THEN TrimRight(SubSeq(s, 1, Len(s) - 1)) ELSE s

\* strings.TrimSpace(s)
TrimSpace(s) == TrimRight(TrimLeft(s))

\* fmt's %d of a natural number: its decimal digits
DigitChars == <<"0", "1", "2", "3", "4", "5", "6", "7", "8", "9">>

RECURSIVE FormatInt(_)
FormatInt(n) ==
    IF n < 10 THEN <<DigitChars[n + 1]>>
    ELSE FormatInt(n \div 10) \o <<DigitChars[(n % 10) + 1]>>

\* the concatenation of a sequence of strings, by halves
RECURSIVE ConcatRange(_, _, _)
ConcatRange(ss, from, to) ==
    IF from > to THEN <<>>
    ELSE IF from = to THEN ss[from]
    ELSE ConcatRange(ss, from, (from + to) \div 2) \o ConcatRange(ss, ((from + to) \div 2) + 1, to)

Concat(ss) == Bind(ss, LAMBDA v : ConcatRange(v, 1, Len(v)))

(***************************************************************************)
(* encoding/base64, StdEncoding: the standard alphabet with padding.       *)
(***************************************************************************)
B64Alphabet ==
    <<"A", "B", "C", "D", "E", "F", "G", "H", "I", "J", "K", "L", "M",
      "N", "O", "P", "Q", "R", "S", "T", "U", "V", "W", "X", "Y", "Z",
      "a", "b", "c", "d", "e", "f", "g", "h", "i", "j", "k", "l", "m",
      "n", "o", "p", "q", "r", "s", "t", "u", "v", "w", "x", "y", "z",
      "0", "1", "2", "3", "4", "5", "6", "7", "8", "9", "+", "/">>

B64Chars == {B64Alphabet[i] : i \in 1..Len(B64Alphabet)}

\* the 6-bit value of an alphabet character
B64Value(c) == (CHOOSE i \in 1..Len(B64Alphabet) : B64Alphabet[i] = c) - 1

B64Char(v) == B64Alphabet[v + 1]

\* base64.StdEncoding.EncodeToString(bytes): three bytes to four characters,
\* the last group padded with "="
RECURSIVE EncodeToString(_)
EncodeToString(bytes) ==
    IF bytes = <<>> THEN <<>>
    ELSE IF Len(bytes) = 1 THEN
        <<B64Char(bytes[1] \div 4), B64Char((bytes[1] % 4) * 16), "=", "=">>
    ELSE IF Len(bytes) = 2 THEN
        <<B64Char(bytes[1] \div 4),
          B64Char((bytes[1] % 4) * 16 + bytes[2] \div 16),
          B64Char((bytes[2] % 16) * 4), "=">>
    ELSE
        <<B64Char(bytes[1] \div 4),
          B64Char((bytes[1] % 4) * 16 + bytes[2] \div 16),
          B64Char((bytes[2] % 16) * 4 + bytes[3] \div 64),
          B64Char(bytes[3] % 64)>>
        \o EncodeToString(SubSeq(bytes, 4, Len(bytes)))

\* the decoder skips carriage returns and line feeds
NotNewline(c) == c \notin {"\n", "\r"}

StripNewlines(s) == SelectSeq(s, NotNewline)

\* a group of four characters that is not the last: no padding allowed
B64FullQuantum(q) == \A i \in 1..4 : q[i] \in B64Chars

\* the last group: xxxx, xxx= or xx==
B64LastQuantum(q) ==
    /\ q[1] \in B64Chars
    /\ q[2] \in B64Chars
    /\ \/ q[3] \in B64Chars /\ q[4] \in B64Chars
       \/ q[3] \in B64Chars /\ q[4] = "="
       \/ q[3] = "=" /\ q[4] = "="

B64WellFormed(t) ==
    /\ Len(t) % 4 = 0
    /\ \A k \in 0..((Len(t) \div 4) - 1) :
          LET q == SubSeq(t, 4 * k + 1, 4 * k + 4)
          IN  IF k = (Len(t) \div 4) - 1 THEN B64LastQuantum(q) ELSE B64FullQuantum(q)

\* the bytes of one group of four characters
B64QuantumBytes(q) ==
    LET a == B64Value(q[1])
        b == B64Value(q[2])
    IN  IF q[3] = "=" THEN <<a * 4 + b \div 16>>
        ELSE IF q[4] = "=" THEN
            <<a * 4 + b \div 16, (b % 16) * 16 + B64Value(q[3]) \div 4>>
        ELSE
            <<a * 4 + b \div 16,
              (b % 16) * 16 + B64Value(q[3]) \div 4,
              (B64Value(q[3]) % 4) * 64 + B64Value(q[4])>>

RECURSIVE B64Bytes(_)
B64Bytes(t) ==
    IF t = <<>> THEN <<>>
    ELSE B64QuantumBytes(SubSeq(t, 1, 4)) \o B64Bytes(SubSeq(t, 5, Len(t)))

\* base64.StdEncoding.DecodeString(s): [err, data]
DecodeString(s) ==
    LET t == StripNewlines(s)
    IN  IF B64WellFormed(t) THEN [err |-> FALSE, data |-> B64Bytes(t)]
        ELSE [err |-> TRUE, data |-> <<>>]

(***************************************************************************)
(* JSON values as encoding/json decodes them into an `any`: nil, bool,     *)
(* float64, string, []any and map[string]any.  Every value is a record of  *)
(* the same shape; a map is kept as its keys in increasing order with the  *)
(* values beside them, since a Go map has one value per key and            *)
(* json.Marshal writes the keys sorted.  Numbers are natural numbers.      *)
(***************************************************************************)
JNull == [t |-> "null", b |-> FALSE, n |-> 0, s |-> <<>>, keys |-> <<>>, kids |-> <<>>]
JBool(b) == [t |-> "bool", b |-> b, n |-> 0, s |-> <<>>, keys |-> <<>>, kids |-> <<>>]
JNum(n) == [t |-> "num", b |-> FALSE, n |-> n, s |-> <<>>, keys |-> <<>>, kids |-> <<>>]
JStr(s) == [t |-> "str", b |-> FALSE, n |-> 0, s |-> s, keys |-> <<>>, kids |-> <<>>]
JArr(kids) == [t |-> "arr", b |-> FALSE, n |-> 0, s |-> <<>>, keys |-> <<>>, kids |-> kids]
JObj(keys, kids) == [t |-> "obj", b |-> FALSE, n |-> 0, s |-> <<>>, keys |-> keys, kids |-> kids]

\* the backquote character (96), which a TLA+ string cannot hold
Backtick == "<backquote>"

\* the printable ASCII characters in code order, from the space (32)
AsciiPrintable ==
    <<
      " ", "!", "\"", "#", "$", "%", "&", "'", "(", ")", "*", "+",
      ",", "-", ".", "/", "0", "1", "2", "3", "4", "5", "6", "7",
      "8", "9", ":", ";", "<", "=", ">", "?", "@", "A", "B", "C",
      "D", "E", "F", "G", "H", "I", "J", "K", "L", "M", "N", "O",
      "P", "Q", "R", "S", "T", "U", "V", "W", "X", "Y", "Z", "[",
      "\\", "]", "^", "_", Backtick, "a", "b", "c", "d", "e", "f", "g",
      "h", "i", "j", "k", "l", "m", "n", "o", "p", "q", "r", "s",
      "t", "u", "v", "w", "x", "y", "z", "{", "|", "}", "~"
    >>

\* the order of two characters: the control characters come first
CharCode(c) ==
    IF c = "\t" THEN 9
    ELSE IF c = "\n" THEN 10
    ELSE IF c = "\r" THEN 13
    ELSE 31 + (CHOOSE i \in 1..Len(AsciiPrintable) : AsciiPrintable[i] = c)

\* a < b for strings, byte by byte
RECURSIVE StrLess(_, _)
StrLess(a, b) ==
    IF b = <<>> THEN FALSE
    ELSE IF a = <<>> THEN TRUE
    ELSE IF Head(a) = Head(b) THEN StrLess(Tail(a), Tail(b))
    ELSE CharCode(Head(a)) < CharCode(Head(b))

\* m[key] = val on a map: the last value of a key stays, the keys stay sorted
MapSet(obj, key, val) ==
    LET n == Len(obj.keys)
        at == {i \in 1..n : obj.keys[i] = key}
        before == {i \in 1..n : StrLess(obj.keys[i], key)}
        k == Cardinality(before)
    IN  IF at # {} THEN
            JObj(obj.keys, [i \in 1..n |-> IF i \in at THEN val ELSE obj.kids[i]])
        ELSE
            JObj(SubSeq(obj.keys, 1, k) \o <<key>> \o SubSeq(obj.keys, k + 1, n),
                 SubSeq(obj.kids, 1, k) \o <<val>> \o SubSeq(obj.kids, k + 1, n))

(***************************************************************************)
(* json.Unmarshal(text, &v) with v an `any`.  A parse result is            *)
(* [ok, val, pos]: the value read and the position after it.  The texts    *)
(* of the model hold natural numbers only (no sign, fraction or exponent)  *)
(* and the escapes \" \\ \/ \n \r \t.                                        *)
(***************************************************************************)
PFail == [ok |-> FALSE, val |-> JNull, pos |-> 0]
POk(v, pos) == [ok |-> TRUE, val |-> v, pos |-> pos]

\* the position of the first character at or after i that is not JSON's
\* insignificant white space (Len(s) + 1 if there is none)
RECURSIVE SkipSpace(_, _)
SkipSpace(s, i) ==
    IF i <= Len(s) /\ s[i] \in {" ", "\n", "\t", "\r"} THEN SkipSpace(s, i + 1) ELSE i

IsDigit(c) == c \in {DigitChars[i] : i \in 1..Len(DigitChars)}

DigitValue(c) == (CHOOSE i \in 1..Len(DigitChars) : DigitChars[i] = c) - 1

\* is the text at position i the word w
WordAt(s, i, w) == i + Len(w) - 1 <= Len(s) /\ SubSeq(s, i, i + Len(w) - 1) = w

\* the characters that end a run of plain characters inside a string
StringSpecial(c) == c \in {"\"", "\\", "\n", "\r", "\t"}

\* the position of the first special character at or after i (Len(s) + 1
\* if there is none)
NextSpecial(s, i) ==
    IF \E j \in i..Len(s) : StringSpecial(s[j])
    THEN CHOOSE j \in i..Len(s) :
             StringSpecial(s[j]) /\ \A k \in i..(j - 1) : ~StringSpecial(s[k])
    ELSE Len(s) + 1

\* the text of a string from position i0, after the opening quote, up to the
\* closing quote: runs of plain characters and escapes.  ScanSpecial is the
\* step at the special character that ends the run, at position i.
RECURSIVE ScanString(_, _, _)
RECURSIVE ScanSpecial(_, _, _)
ScanSpecial(s, i, acc) ==
    IF i > Len(s) THEN PFail
    ELSE IF s[i] = "\"" THEN POk(JStr(acc), i + 1)
    ELSE IF s[i] # "\\" \/ i + 1 > Len(s) THEN PFail
    ELSE IF s[i + 1] \in {"\"", "\\", "/"} THEN ScanString(s, i + 2, acc \o <<s[i + 1]>>)
    ELSE IF s[i + 1] = "n" THEN ScanString(s, i + 2, acc \o <<"\n">>)
    ELSE IF s[i + 1] = "r" THEN ScanString(s, i + 2, acc \o <<"\r">>)
    ELSE IF s[i + 1] = "t" THEN ScanString(s, i + 2, acc \o <<"\t">>)
    ELSE PFail

ScanRun(s, i0, acc0, i) == ScanSpecial(s, i, acc0 \o SubSeq(s, i0, i - 1))

ScanString(s, i0, acc0) == ScanRun(s, i0, acc0, NextSpecial(s, i0))

\* the digits of a number from position i
RECURSIVE ScanDigits(_, _, _)
ScanDigits(s, i, acc) ==
    IF i <= Len(s) /\ IsDigit(s[i]) THEN ScanDigits(s, i + 1, acc * 10 + DigitValue(s[i]))
    ELSE POk(JNum(acc), i)

\* a number at position i, where a digit stands: no leading zero
ScanNumber(s, i) ==
    IF s[i] = "0" /\ i + 1 <= Len(s) /\ IsDigit(s[i + 1]) THEN PFail
    ELSE ScanDigits(s, i, 0)

RECURSIVE ParseValue(_, _)
RECURSIVE ParseElements(_, _, _)
RECURSIVE ParseMembers(_, _, _)

\* an array from position j, after "[" and white space
ParseArray(s, j) ==
    IF j <= Len(s) /\ s[j] = "]" THEN POk(JArr(<<>>), j + 1)
    ELSE ParseElements(s, j, <<>>)

\* an object from position j, after "{" and white space
ParseObject(s, j) ==
    IF j <= Len(s) /\ s[j] = "}" THEN POk(JObj(<<>>, <<>>), j + 1)
    ELSE ParseMembers(s, j, JObj(<<>>, <<>>))

\* the value that starts at position i
ParseValueAt(s, i) ==
    IF i > Len(s) THEN PFail
    ELSE IF s[i] = "\"" THEN ScanString(s, i + 1, <<>>)
    ELSE IF s[i] = "{" THEN ParseObject(s, SkipSpace(s, i + 1))
    ELSE IF s[i] = "[" THEN ParseArray(s, SkipSpace(s, i + 1))
    ELSE IF IsDigit(s[i]) THEN ScanNumber(s, i)
    ELSE IF WordAt(s, i, <<"n", "u", "l", "l">>) THEN POk(JNull, i + 4)
    ELSE IF WordAt(s, i, <<"t", "r", "u", "e">>) THEN POk(JBool(TRUE), i + 4)
    ELSE IF WordAt(s, i, <<"f", "a", "l", "s", "e">>) THEN POk(JBool(FALSE), i + 5)
    ELSE PFail

\* the value that starts at or after position i0
ParseValue(s, i0) == ParseValueAt(s, SkipSpace(s, i0))

\* after the elements acc, at position j: a comma and more, or the end
ElementsNext(s, acc, j) ==
    IF j > Len(s) THEN PFail
    ELSE IF s[j] = "," THEN ParseElements(s, j + 1, acc)
    ELSE IF s[j] = "]" THEN POk(JArr(acc), j + 1)
    ELSE PFail

\* after the elements acc, the parse result r of one more
ElementsAfter(s, acc, r) ==
    IF r.ok THEN ElementsNext(s, acc \o <<r.val>>, SkipSpace(s, r.pos)) ELSE PFail

\* the elements of an array after "[" or ","
ParseElements(s, i, acc) == ElementsAfter(s, acc, ParseValue(s, i))

\* after the members obj, at position j: a comma and more, or the end
MembersNext(s, obj, j) ==
    IF j > Len(s) THEN PFail
    ELSE IF s[j] = "," THEN ParseMembers(s, j + 1, obj)
    ELSE IF s[j] = "}" THEN POk(obj, j + 1)
    ELSE PFail

\* after the members obj and a key, the parse result r of its value
MembersAfter(s, obj, key, r) ==
    IF r.ok THEN MembersNext(s, MapSet(obj, key, r.val), SkipSpace(s, r.pos)) ELSE PFail

\* after the members obj and a key, at position c: a colon and a value
MemberValue(s, obj, key, c) ==
    IF c <= Len(s) /\ s[c] = ":" THEN MembersAfter(s, obj, key, ParseValue(s, c + 1))
    ELSE PFail

\* after the members obj, the parse result k of a key
MemberKey(s, obj, k) ==
    IF k.ok THEN MemberValue(s, obj, k.val.s, SkipSpace(s, k.pos)) ELSE PFail

\* after the members obj, at position i: a key in quotes
MemberAt(s, obj, i) ==
    IF i <= Len(s) /\ s[i] = "\"" THEN MemberKey(s, obj, ScanString(s, i + 1, <<>>))
    ELSE PFail

\* the members of an object after "{" or ","
ParseMembers(s, i0, obj) == MemberAt(s, obj, SkipSpace(s, i0))

\* one value and nothing but white space after it
UnmarshalResult(text, r) ==
    IF r.ok /\ SkipSpace(text, r.pos) > Len(text) THEN [err |-> FALSE, val |-> r.val]
    ELSE [err |-> TRUE, val |-> JNull]

\* json.Unmarshal(text, &v)
Unmarshal(text) == UnmarshalResult(text, ParseValue(text, 1))

(***************************************************************************)
(* json.MarshalIndent(v, "", "  ")                                         *)
(***************************************************************************)
EscapeChar(c) ==
    IF c = "\"" THEN <<"\\", "\"">>
    ELSE IF c = "\\" THEN <<"\\", "\\">>
    ELSE IF c = "\n" THEN <<"\\", "n">>
    ELSE IF c = "\r" THEN <<"\\", "r">>
    ELSE IF c = "\t" THEN <<"\\", "t">>
    ELSE <<c>>

Quote(s) == <<"\"">> \o Concat([i \in 1..Len(s) |-> EscapeChar(s[i])]) \o <<"\"">>

\* a new line and the indentation of a nesting depth
NewlineIndent(depth) == <<"\n">> \o [i \in 1..(2 * depth) |-> " "]

RECURSIVE MarshalIndentAt(_, _)
MarshalIndentAt(v, depth) ==
    IF v.t = "null" THEN <<"n", "u", "l", "l">>
    ELSE IF v.t = "bool" THEN
        IF v.b THEN <<"t", "r", "u", "e">> ELSE <<"f", "a", "l", "s", "e">>
    ELSE IF v.t = "num" THEN FormatInt(v.n)
    ELSE IF v.t = "str" THEN Quote(v.s)
    ELSE IF v.t = "arr" THEN
        IF v.kids = <<>> THEN <<"[", "]">>
        ELSE <<"[">>
             \o Concat([i \in 1..Len(v.kids) |->
                    NewlineIndent(depth + 1)
                    \o MarshalIndentAt(v.kids[i], depth + 1)
                    \o (IF i < Len(v.kids) THEN <<",">> ELSE <<>>)])
             \o NewlineIndent(depth) \o <<"]">>
    ELSE
        IF v.kids = <<>> THEN <<"{", "}">>
        ELSE <<"{">>
             \o Concat([i \in 1..Len(v.kids) |->
                    NewlineIndent(depth + 1)
                    \o Quote(v.keys[i]) \o <<":", " ">>
                    \o MarshalIndentAt(v.kids[i], depth + 1)
                    \o (IF i < Len(v.kids) THEN <<",">> ELSE <<>>)])
             \o NewlineIndent(depth) \o <<"}">>

MarshalIndent(v) == MarshalIndentAt(v, 0)

\* json.Marshal(v): the compact form
RECURSIVE Marshal(_)
Marshal(v) ==
    IF v.t \in {"null", "bool", "num", "str"} THEN MarshalIndentAt(v, 0)
    ELSE IF v.t = "arr" THEN
        <<"[">>
        \o Concat([i \in 1..Len(v.kids) |->
               Marshal(v.kids[i]) \o (IF i < Len(v.kids) THEN <<",">> ELSE <<>>)])
        \o <<"]">>
    ELSE
        <<"{">>
        \o Concat([i \in 1..Len(v.kids) |->
               Quote(v.keys[i]) \o <<":">> \o Marshal(v.kids[i])
               \o (IF i < Len(v.kids) THEN <<",">> ELSE <<>>)])
        \o <<"}">>

\* the value of a key of a map, nil when the key is absent
MapGet(obj, key) ==
    IF \E i \in 1..Len(obj.keys) : obj.keys[i] = key
    THEN obj.kids[CHOOSE i \in 1..Len(obj.keys) : obj.keys[i] = key]
    ELSE JNull

MapHas(obj, key) == \E i \in 1..Len(obj.keys) : obj.keys[i] = key

\* a map from a sequence of <<key, value>> pairs
RECURSIVE MapOf(_)
MapOf(pairs) ==
    IF pairs = <<>> THEN JObj(<<>>, <<>>)
    ELSE MapSet(MapOf(SubSeq(pairs, 1, Len(pairs) - 1)),
                pairs[Len(pairs)][1], pairs[Len(pairs)][2])

(***************************************************************************)
(* types.go: the response types.  The four bounding-box coordinates of an  *)
(* image are read by no code and are left out.                             *)
(***************************************************************************)
\* type Image
Image(id, imageBase64, imageAnnotation) ==
    [ID |-> id, ImageBase64 |-> imageBase64, ImageAnnotation |-> imageAnnotation]

\* type Page
Page(index, markdown, images) ==
    [Index |-> index, Markdown |-> markdown, Images |-> images]

\* type OCRResponse
OCRResponse(pages, documentAnnotation) ==
    [Pages |-> pages, DocumentAnnotation |-> documentAnnotation]

ZeroImage == Image(<<>>, <<>>, JNull)
ZeroPage == Page(0, <<>>, <<>>)
ZeroResponse == OCRResponse(<<>>, JNull)

(***************************************************************************)
(* json.Unmarshal into the response types: a key that is absent or null    *)
(* leaves the zero value, a value of another JSON type is an error.        *)
(***************************************************************************)
DecodeStr(v) ==
    IF v.t = "null" THEN [err |-> FALSE, val |-> <<>>]
    ELSE IF v.t = "str" THEN [err |-> FALSE, val |-> v.s]
    ELSE [err |-> TRUE, val |-> <<>>]

DecodeInt(v) ==
    IF v.t = "null" THEN [err |-> FALSE, val |-> 0]
    ELSE IF v.t = "num" THEN [err |-> FALSE, val |-> v.n]
    ELSE [err |-> TRUE, val |-> 0]

DecodeImage(v) ==
    IF v.t = "null" THEN [err |-> FALSE, val |-> ZeroImage]
    ELSE IF v.t # "obj" THEN [err |-> TRUE, val |-> ZeroImage]
    ELSE
        Bind(DecodeStr(MapGet(v, <<"i", "d">>)), LAMBDA id :
        Bind(DecodeStr(MapGet(v, <<"i", "m", "a", "g", "e", "_", "b", "a", "s", "e", "6", "4">>)), LAMBDA b64 :
            [err |-> id.err \/ b64.err,
             val |-> Image(id.val, b64.val, MapGet(v, <<"i", "m", "a", "g", "e", "_", "a", "n", "n", "o", "t", "a", "t", "i", "o", "n">>))]))

DecodeImages(v) ==
    IF v.t = "null" THEN [err |-> FALSE, val |-> <<>>]
    ELSE IF v.t # "arr" THEN [err |-> TRUE, val |-> <<>>]
    ELSE Bind([i \in 1..Len(v.kids) |-> DecodeImage(v.kids[i])], LAMBDA ds :
             [err |-> \E i \in 1..Len(ds) : ds[i].err,
              val |-> [i \in 1..Len(ds) |-> ds[i].val]])

DecodePage(v) ==
    IF v.t = "null" THEN [err |-> FALSE, val |-> ZeroPage]
    ELSE IF v.t # "obj" THEN [err |-> TRUE, val |-> ZeroPage]
    ELSE
        Bind(DecodeInt(MapGet(v, <<"i", "n", "d", "e", "x">>)), LAMBDA index :
        Bind(DecodeStr(MapGet(v, <<"m", "a", "r", "k", "d", "o", "w", "n">>)), LAMBDA markdown :
        Bind(DecodeImages(MapGet(v, <<"i", "m", "a", "g", "e", "s">>)), LAMBDA images :
            [err |-> index.err \/ markdown.err \/ images.err,
             val |-> Page(index.val, markdown.val, images.val)])))

DecodePages(v) ==
    IF v.t = "null" THEN [err |-> FALSE, val |-> <<>>]
    ELSE IF v.t # "arr" THEN [err |-> TRUE, val |-> <<>>]
    ELSE Bind([i \in 1..Len(v.kids) |-> DecodePage(v.kids[i])], LAMBDA ds :
             [err |-> \E i \in 1..Len(ds) : ds[i].err,
              val |-> [i \in 1..Len(ds) |-> ds[i].val]])

\* json.Unmarshal(respBody, &ocrResp)
UnmarshalOCRResponse(text) ==
    Bind(Unmarshal(text), LAMBDA p :
        IF p.err THEN [err |-> TRUE, val |-> ZeroResponse]
        ELSE IF p.val.t = "null" THEN [err |-> FALSE, val |-> ZeroResponse]
        ELSE IF p.val.t # "obj" THEN [err |-> TRUE, val |-> ZeroResponse]
        ELSE
            Bind(DecodePages(MapGet(p.val, <<"p", "a", "g", "e", "s">>)), LAMBDA pages :
                [err |-> pages.err,
                 val |-> OCRResponse(pages.val, MapGet(p.val, <<"d", "o", "c", "u", "m", "e", "n", "t", "_", "a", "n", "n", "o", "t", "a", "t", "i", "o", "n">>))]))

(***************************************************************************)
(* The service's side: json.Marshal of a response, as the mock servers of  *)
(* the tests write it.  image_annotation and document_annotation are       *)
(* omitempty.                                                              *)
(***************************************************************************)
ImageJSON(img) ==
    MapOf(<<<<<<"i", "d">>, JStr(img.ID)>>, <<<<"i", "m", "a", "g", "e", "_", "b", "a", "s", "e", "6", "4">>, JStr(img.ImageBase64)>>>>
          \o (IF img.ImageAnnotation.t = "null" THEN <<>>
              ELSE <<<<<<"i", "m", "a", "g", "e", "_", "a", "n", "n", "o", "t", "a", "t", "i", "o", "n">>, img.ImageAnnotation>>>>))

PageJSON(page) ==
    MapOf(<<<<<<"i", "n", "d", "e", "x">>, JNum(page.Index)>>,
            <<<<"m", "a", "r", "k", "d", "o", "w", "n">>, JStr(page.Markdown)>>,
            <<<<"i", "m", "a", "g", "e", "s">>, JArr([i \in 1..Len(page.Images) |-> ImageJSON(page.Images[i])])>>>>)

ResponseJSON(resp) ==
    MapOf(<<<<<<"p", "a", "g", "e", "s">>, JArr([i \in 1..Len(resp.Pages) |-> PageJSON(resp.Pages[i])])>>>>
          \o (IF resp.DocumentAnnotation.t = "null" THEN <<>>
              ELSE <<<<<<"d", "o", "c", "u", "m", "e", "n", "t", "_", "a", "n", "n", "o", "t", "a", "t", "i", "o", "n">>, resp.DocumentAnnotation>>>>))

\* json.NewEncoder(w).Encode(expectedResponse)
EncodeResponse(resp) == Marshal(ResponseJSON(resp)) \o <<"\n">>

(***************************************************************************)
(* path/filepath, on paths of the slash-separated kind.                    *)
(***************************************************************************)
\* filepath.Base(path) of a path that does not end in a slash
Base(path) == SliceFrom(path, LastIndex(path, <<"/">>) + 1)

\* filepath.Dir(path)
Dir(path) ==
    IF LastIndex(path, <<"/">>) = -1 THEN <<".">>
    ELSE SliceTo(path, LastIndex(path, <<"/">>))

\* filepath.Ext(path): from the last dot of the last element
Ext(path) ==
    IF LastIndex(Base(path), <<".">>) = -1 THEN <<>>
    ELSE SliceFrom(Base(path), LastIndex(Base(path), <<".">>))

\* filepath.Join(dir, name) of two clean, non-empty elements
Join(dir, name) == dir \o <<"/">> \o name

(***************************************************************************)
(* The file system: the files written so far, by path, and the directories *)
(* made.  A file holds text (characters) or data (bytes).                  *)
(***************************************************************************)
FileText(text) == [kind |-> "text", text |-> text, data |-> <<>>]
FileData(data) == [kind |-> "data", text |-> <<>>, data |-> data]

\* os.WriteFile(path, content) that succeeds
WriteFile(fs, path, content) ==
    [p \in (DOMAIN fs) \cup {path} |-> IF p = path THEN content ELSE fs[p]]

\* an error value: the parts of its message, outermost wrapping first
Wrap(prefix, e) == <<prefix>> \o e

NoError == <<>>

(***************************************************************************)
(* main.go: the output pipeline.                                           *)
(***************************************************************************)
\* extractText with a bug: the blank line is written between pages only
RECURSIVE extractTextJoined(_)
extractTextJoined(pages) ==
    IF pages = <<>> THEN <<>>
    ELSE IF Len(pages) = 1 THEN Head(pages).Markdown
    ELSE Head(pages).Markdown \o <<"\n", "\n">> \o extractTextJoined(Tail(pages))

\* the text extractText builds: every page's markdown followed by "\n\n"
RECURSIVE extractTextBuilder(_)
extractTextBuilder(pages) ==
    IF pages = <<>> THEN <<>>
    ELSE Head(pages).Markdown \o <<"\n", "\n">> \o extractTextBuilder(Tail(pages))

\* countImages(resp)
RECURSIVE countImagesOf(_)
countImagesOf(pages) ==
    IF pages = <<>> THEN 0
    ELSE Len(Head(pages).Images) + countImagesOf(Tail(pages))

countImages(resp) == countImagesOf(resp.Pages)

\* extractText(resp): the text and the number of images
extractText(resp) ==
    [text |-> extractTextBuilder(resp.Pages), imageCount |-> countImagesOf(resp.Pages)]

\* the iterations of the two nested loops of extractImages, in order: each
\* image with the Index of its page
RECURSIVE imageIterations(_)
imageIterations(pages) ==
    IF pages = <<>> THEN <<>>
    ELSE [j \in 1..Len(Head(pages).Images) |->
             [pageIndex |-> Head(pages).Index, img |-> Head(pages).Images[j]]]
         \o imageIterations(Tail(pages))

\* imageExtension(dataURL)
imageExtension(dataURL) ==
    IF Contains(dataURL, <<"i", "m", "a", "g", "e", "/", "j", "p", "e", "g">>) THEN <<".", "j", "p", "g">>
    ELSE IF Contains(dataURL, <<"i", "m", "a", "g", "e", "/", "g", "i", "f">>) THEN <<".", "g", "i", "f">>
    ELSE IF Contains(dataURL, <<"i", "m", "a", "g", "e", "/", "w", "e", "b", "p">>) THEN <<".", "w", "e", "b", "p">>
    ELSE <<".", "p", "n", "g">>

\* saveImage, lines 258-261: what follows the first comma, if there is one
stripDataPrefix(b64Data) ==
    IF Index(b64Data, <<",">>) # -1 THEN SliceFrom(b64Data, Index(b64Data, <<",">>) + 1)
    ELSE b64Data

\* imagePath with a bug: the file is named after its page alone
imagePathPerPage(imagesDir, pageIndex, imgIndex, ext) ==
    Join(imagesDir, <<"p", "a", "g", "e", "_">> \o FormatInt(pageIndex) \o ext)

\* fmt.Sprintf("page_%d_img_%d%s", pageIndex, imgIndex, ext) under imagesDir
imagePath(imagesDir, pageIndex, imgIndex, ext) ==
    Join(imagesDir,
         <<"p", "a", "g", "e", "_">> \o FormatInt(pageIndex) \o <<"_", "i", "m", "g", "_">> \o FormatInt(imgIndex) \o ext)

\* saveImage with a bug: the error of DecodeString is dropped
saveImageUnchecked(img, pageIndex, imgIndex, imagesDir, fs, writeFails) ==
    Bind(DecodeString(stripDataPrefix(img.ImageBase64)), LAMBDA decoded :
    Bind(imagePath(imagesDir, pageIndex, imgIndex, imageExtension(img.ImageBase64)), LAMBDA imgPath :
        IF writeFails THEN
            [err |-> Wrap("writing image: ", <<"write failed">>), path |-> <<>>, fs |-> fs]
        ELSE
            [err |-> NoError, path |-> imgPath, fs |-> WriteFile(fs, imgPath, FileData(decoded.data))]))

\* saveImage(img, pageIndex, imgIndex, imagesDir) on the files fs; writeFails
\* says that os.WriteFile fails.  [err, path, fs]
saveImage(img, pageIndex, imgIndex, imagesDir, fs, writeFails) ==
    Bind(DecodeString(stripDataPrefix(img.ImageBase64)), LAMBDA decoded :
    Bind(imagePath(imagesDir, pageIndex, imgIndex, imageExtension(img.ImageBase64)), LAMBDA imgPath :
        IF decoded.err THEN
            [err |-> Wrap("decoding image: ", <<"illegal base64 data">>), path |-> <<>>, fs |-> fs]
        ELSE IF writeFails THEN
            [err |-> Wrap("writing image: ", <<"write failed">>), path |-> <<>>, fs |-> fs]
        ELSE
            [err |-> NoError, path |-> imgPath, fs |-> WriteFile(fs, imgPath, FileData(decoded.data))]))

\* normalize with a bug: a string that is not JSON is kept as a string
normalizeLenient(annotation) ==
    IF annotation.t = "str" THEN
        Bind(Unmarshal(annotation.s), LAMBDA parsed :
            IF parsed.err
            THEN [err |-> NoError, val |-> annotation]
            ELSE [err |-> NoError, val |-> parsed.val])
    ELSE [err |-> NoError, val |-> annotation]

\* normalize with a bug: only a map is taken as a structured value
normalizeMapsOnly(annotation) ==
    IF annotation.t = "str" THEN
        Bind(Unmarshal(annotation.s), LAMBDA parsed :
            IF parsed.err
            THEN [err |-> Wrap("parsing annotation JSON string: ", <<"invalid JSON">>), val |-> JNull]
            ELSE [err |-> NoError, val |-> parsed.val])
    ELSE IF annotation.t = "obj" THEN [err |-> NoError, val |-> annotation]
    ELSE [err |-> <<"unsupported annotation type">>, val |-> JNull]

\* normalize with a bug: a string is taken as it is
normalizeNoParse(annotation) == [err |-> NoError, val |-> annotation]

\* saveAnnotation, lines 297-305: a string is parsed as JSON, any other value
\* is taken as it is.  [err, val]
normalize(annotation) ==
    IF annotation.t = "str" THEN
        Bind(Unmarshal(annotation.s), LAMBDA parsed :
            IF parsed.err
            THEN [err |-> Wrap("parsing annotation JSON string: ", <<"invalid JSON">>), val |-> JNull]
            ELSE [err |-> NoError, val |-> parsed.val])
    ELSE [err |-> NoError, val |-> annotation]

\* saveAnnotation(annotation, path) on the files fs.  [err, fs]
\* (json.MarshalIndent cannot fail on a value that was decoded from JSON)
saveAnnotation(annotation, path, fs, writeFails) ==
    Bind(normalize(annotation), LAMBDA n :
        IF n.err # NoError THEN [err |-> n.err, fs |-> fs]
        ELSE IF writeFails THEN
            [err |-> Wrap("writing annotation: ", <<"write failed">>), fs |-> fs]
        ELSE [err |-> NoError, fs |-> WriteFile(fs, path, FileText(MarshalIndent(n.val)))])

\* metadataPath with a bug: the extension of the image is kept
metadataPathKeepExt(imgPath) == imgPath \o <<".", "j", "s", "o", "n">>

\* the path saveAnnotationMetadata writes to
metadataPath(imgPath) == TrimSuffix(imgPath, Ext(imgPath)) \o <<".", "j", "s", "o", "n">>

\* saveAnnotationMetadata(annotation, imgPath)
saveAnnotationMetadata(annotation, imgPath, fs, writeFails) ==
    saveAnnotation(annotation, metadataPath(imgPath), fs, writeFails)

(***************************************************************************)
(* types.go and client.go: the request.  A pointer field is a record with  *)
(* a nil flag.                                                             *)
(***************************************************************************)
\* type JSONSchema
JSONSchema(name, schema) == [Name |-> name, Schema |-> schema]

\* type AnnotationFormat, behind a pointer
NilFormat == [nil |-> TRUE, Type |-> <<>>, JSONSchema |-> JSONSchema(<<>>, JNull)]
AnnotationFormat(type, jsonSchema) == [nil |-> FALSE, Type |-> type, JSONSchema |-> jsonSchema]

\* *JSONSchema of OCROptions.DocumentSchema
NilSchema == [nil |-> TRUE, Name |-> <<>>, Schema |-> JNull]
SchemaPtr(name, schema) == [nil |-> FALSE, Name |-> name, Schema |-> schema]

\* type OCROptions
OCROptions(extractImageMetadata, documentSchema) ==
    [ExtractImageMetadata |-> extractImageMetadata, DocumentSchema |-> documentSchema]

\* const ocrModel
ocrModel == <<"m", "i", "s", "t", "r", "a", "l", "-", "o", "c", "r", "-", "l", "a", "t", "e", "s", "t">>

\* var ImageMetadataSchema: the name, and of the schema its type and its
\* required fields (the properties are left out)
ImageMetadataSchema ==
    JSONSchema(<<"i", "m", "a", "g", "e", "_", "m", "e", "t", "a", "d", "a", "t", "a">>,
               MapOf(<<<<<<"t", "y", "p", "e">>, JStr(<<"o", "b", "j", "e", "c", "t">>)>>,
                       <<<<"r", "e", "q", "u", "i", "r", "e", "d">>, JArr(<<JStr(<<"d", "e", "s", "c", "r", "i", "p", "t", "i", "o", "n">>), JStr(<<"t", "y", "p", "e">>)>>)>>>>))

\* ProcessDocument, lines 163-187: the request for a document and options
buildRequest(docData, opts) ==
    [Model |-> ocrModel,
     Document |-> [Type |-> <<"d", "o", "c", "u", "m", "e", "n", "t", "_", "u", "r", "l">>,
                   DocumentURL |-> <<"d", "a", "t", "a", ":", "a", "p", "p", "l", "i", "c", "a", "t", "i", "o", "n", "/", "p", "d", "f", ";", "b", "a", "s", "e", "6", "4", ",">> \o EncodeToString(docData)],
     IncludeImageBase64 |-> TRUE,
     BBoxAnnotationFormat |->
         IF opts.ExtractImageMetadata
         THEN AnnotationFormat(<<"j", "s", "o", "n", "_", "s", "c", "h", "e", "m", "a">>, ImageMetadataSchema)
         ELSE NilFormat,
     DocumentAnnotationFormat |->
         IF ~opts.DocumentSchema.nil
         THEN AnnotationFormat(<<"j", "s", "o", "n", "_", "s", "c", "h", "e", "m", "a">>,
                               JSONSchema(opts.DocumentSchema.Name, opts.DocumentSchema.Schema))
         ELSE NilFormat]

\* json.Marshal of an AnnotationFormat
FormatJSON(f) ==
    MapOf(<<<<<<"t", "y", "p", "e">>, JStr(f.Type)>>,
            <<<<"j", "s", "o", "n", "_", "s", "c", "h", "e", "m", "a">>, MapOf(<<<<<<"n", "a", "m", "e">>, JStr(f.JSONSchema.Name)>>,
                                       <<<<"s", "c", "h", "e", "m", "a">>, f.JSONSchema.Schema>>>>)>>>>)

\* RequestJSON with a bug: the two formats are not omitempty
RequestJSONNoOmit(req) ==
    MapOf(<<<<<<"m", "o", "d", "e", "l">>, JStr(req.Model)>>,
            <<<<"d", "o", "c", "u", "m", "e", "n", "t">>, MapOf(<<<<<<"t", "y", "p", "e">>, JStr(req.Document.Type)>>,
                                    <<<<"d", "o", "c", "u", "m", "e", "n", "t", "_", "u", "r", "l">>, JStr(req.Document.DocumentURL)>>>>)>>,
            <<<<"i", "n", "c", "l", "u", "d", "e", "_", "i", "m", "a", "g", "e", "_", "b", "a", "s", "e", "6", "4">>, JBool(req.IncludeImageBase64)>>,
            <<<<"b", "b", "o", "x", "_", "a", "n", "n", "o", "t", "a", "t", "i", "o", "n", "_", "f", "o", "r", "m", "a", "t">>,
              IF req.BBoxAnnotationFormat.nil THEN JNull ELSE FormatJSON(req.BBoxAnnotationFormat)>>,
            <<<<"d", "o", "c", "u", "m", "e", "n", "t", "_", "a", "n", "n", "o", "t", "a", "t", "i", "o", "n", "_", "f", "o", "r", "m", "a", "t">>,
              IF req.DocumentAnnotationFormat.nil THEN JNull
              ELSE FormatJSON(req.DocumentAnnotationFormat)>>>>)

\* json.Marshal(ocrReq) by the tags of OCRRequest: the two formats are omitempty
RequestJSON(req) ==
    MapOf(<<<<<<"m", "o", "d", "e", "l">>, JStr(req.Model)>>,
            <<<<"d", "o", "c", "u", "m", "e", "n", "t">>, MapOf(<<<<<<"t", "y", "p", "e">>, JStr(req.Document.Type)>>,
                                    <<<<"d", "o", "c", "u", "m", "e", "n", "t", "_", "u", "r", "l">>, JStr(req.Document.DocumentURL)>>>>)>>,
            <<<<"i", "n", "c", "l", "u", "d", "e", "_", "i", "m", "a", "g", "e", "_", "b", "a", "s", "e", "6", "4">>, JBool(req.IncludeImageBase64)>>>>
          \o (IF req.BBoxAnnotationFormat.nil THEN <<>>
              ELSE <<<<<<"b", "b", "o", "x", "_", "a", "n", "n", "o", "t", "a", "t", "i", "o", "n", "_", "f", "o", "r", "m", "a", "t">>, FormatJSON(req.BBoxAnnotationFormat)>>>>)
          \o (IF req.DocumentAnnotationFormat.nil THEN <<>>
              ELSE <<<<<<"d", "o", "c", "u", "m", "e", "n", "t", "_", "a", "n", "n", "o", "t", "a", "t", "i", "o", "n", "_", "f", "o", "r", "m", "a", "t">>, FormatJSON(req.DocumentAnnotationFormat)>>>>))

\* apiError with a bug: the body is left out of the message
apiErrorNoBody(statusCode, respBody) ==
    <<"API error (status ">> \o FormatInt(statusCode) \o <<")">>

\* doRequest, line 219: the error of a status that is not 200
apiError(statusCode, respBody) ==
    <<"API error (status ">> \o FormatInt(statusCode) \o <<"): ">> \o respBody

\* http.StatusOK
StatusOK == 200

(***************************************************************************)
(* The state.                                                              *)
(*   env         what the run is given: the command line, the document,    *)
(*               the answer the service will give, the writes that fail    *)
(*   op          the operation: "run" (the command, main.go) or "analyze"  *)
(*               (Client.AnalyzeImage)                                     *)
(*   pc          where the operation stands                                *)
(*   opts        the OCROptions of the run                                 *)
(*   request     the JSON of the request that was sent                     *)
(*   calls       the HTTP requests sent so far                             *)
(*   outstanding the HTTP requests sent and not answered                   *)
(*   httpResp    the answer of the transport, until it is consumed         *)
(*   resp        the decoded OCRResponse                                   *)
(*   files       the files written, by path                                *)
(*   dirs        the directories made                                      *)
(*   stdout      the lines printed on stdout                               *)
(*   stderr      the error lines printed on stderr                         *)
(*   report      the Reporter of the run                                   *)
(*   progress    what the Reporter wrote to its writer, os.Stderr          *)
(*   iter        the iterations of the image loop done                     *)
(*   imgIndex    the variable imgIndex of extractImages                    *)
(*   exit        the exit code: -1 while running                           *)
(*   err         the error the operation returned                          *)
(*   metadata    the ImageMetadata AnalyzeImage returned                   *)
(***************************************************************************)
VARIABLES env, op, pc, opts, request, calls, outstanding, httpResp, resp,
          files, dirs, stdout, stderr, iter, imgIndex, exit, err, metadata,
          report, progress

vars == <<env, op, pc, opts, request, calls, outstanding, httpResp, resp,
          files, dirs, stdout, stderr, iter, imgIndex, exit, err, metadata,
          report, progress>>

(***************************************************************************)
(* reporter.go.  A writer is "stderr" or "discard" (io.Discard); out is    *)
(* what was written to os.Stderr by the Reporter.                          *)
(***************************************************************************)
\* no Reporter yet
NilReporter == [w |-> "nil", verbose |-> FALSE]

\* NewReporter with a bug: verbose is kept in quiet mode, with the writer
NewReporterVerboseWins(w, quiet, verbose) ==
    [w |-> IF quiet /\ ~verbose THEN "discard" ELSE w, verbose |-> verbose]

\* NewReporter, lines 17-22
NewReporter(w, quiet, verbose) ==
    IF quiet THEN [w |-> "discard", verbose |-> FALSE]
    ELSE [w |-> w, verbose |-> verbose]

\* fmt.Fprintf(r.w, format, args...): io.Discard keeps nothing
Fprintf(w, out, message) == IF w = "discard" THEN out ELSE Append(out, message)

\* Reporter.Progress, lines 25-27
Progress(r, out, message) == Fprintf(r.w, out, message)

\* Reporter.Verbose, lines 30-34
Verbose(r, out, message) == IF r.verbose THEN Fprintf(r.w, out, message) ELSE out

NoHTTP == [present |-> FALSE, failed |-> FALSE, status |-> 0, body |-> <<>>]

\* the body the service answers with
ReplyBody(e) == IF e.bodyKind = "result" THEN EncodeResponse(e.result) ELSE e.text

\* run, lines 122-132
outDir == env.outDir
baseName == TrimSuffix(Base(env.docPath), Ext(env.docPath))
textPath == Join(outDir, baseName \o <<".", "m", "d">>)
annotationPath == Join(outDir, baseName \o <<".", "a", "n", "n", "o", "t", "a", "t", "i", "o", "n", ".", "j", "s", "o", "n">>)
imagesDir == Join(outDir, <<"i", "m", "a", "g", "e", "s">>)

\* main, lines 18-21: the error is printed and the exit code is 1
Fail(e) ==
    /\ pc' = "failed"
    /\ err' = e
    /\ exit' = 1
    /\ stderr' = Append(stderr, <<"Error: ">> \o e)

\* run, lines 99-148: the checks before the client is used
Setup ==
    /\ op = "run"
    /\ pc = "start"
    /\ IF ~env.docExists THEN
           /\ Fail(<<"file not found: ">> \o env.docPath)
           /\ UNCHANGED <<dirs, opts, report, progress>>
       ELSE IF ~env.apiKey THEN
           /\ Fail(<<"MISTRAL_API_KEY environment variable is required">>)
           /\ UNCHANGED <<dirs, opts, report, progress>>
       ELSE IF env.outDirFails THEN
           /\ Fail(Wrap("creating output directory: ", <<"mkdir failed">>))
           /\ UNCHANGED <<dirs, opts, report, progress>>
       ELSE IF env.schemaFlag = "bad" THEN
           /\ Fail(Wrap("loading schema file: ", <<"unreadable or not JSON">>))
           /\ dirs' = dirs \cup {outDir}
           /\ report' = NewReporter("stderr", env.quiet, env.verbose)
           /\ UNCHANGED <<opts, progress>>
       ELSE
           /\ pc' = "process"
           /\ dirs' = dirs \cup {outDir}
           /\ opts' = OCROptions(env.extractMetadata,
                                 IF env.schemaFlag = "ok" THEN env.schema ELSE NilSchema)
           /\ report' = NewReporter("stderr", env.quiet, env.verbose)
           /\ progress' = Progress(report', progress,
                                   <<"Processing: ">> \o env.docPath \o <<"\n">>)
           /\ UNCHANGED <<err, exit, stderr>>
    /\ UNCHANGED <<metadata, env, op, request, calls, outstanding, httpResp, resp, files,
                   stdout, iter, imgIndex>>

\* the error of os.ReadFile(docPath), line 158: "open <path>: <cause>"
readFileError(docPath, cause) == <<"open ">> \o docPath \o <<": ", cause>>

\* ProcessDocument with a bug: the request is sent before the document is read
ProcessDocumentSendFirst ==
    /\ op = "run"
    /\ pc = "process"
    /\ request' = RequestJSON(buildRequest(env.docData, opts))
    /\ calls' = calls + 1
    /\ IF env.docReadFails THEN
           /\ Fail(Wrap("reading PDF file: ", readFileError(env.docPath, env.docReadCause)))
           /\ UNCHANGED outstanding
       ELSE
           /\ outstanding' = outstanding + 1
           /\ pc' = "wait"
           /\ UNCHANGED <<err, exit, stderr>>
    /\ UNCHANGED <<metadata, env, op, opts, httpResp, resp, files, dirs, stdout, iter, imgIndex,
                   report, progress>>

\* Client.ProcessDocument, lines 157-189, and doRequest up to httpClient.Do
\* (lines 193-207): the document is read and the request is sent
ProcessDocument ==
    /\ op = "run"
    /\ pc = "process"
    /\ IF env.docReadFails THEN
           /\ Fail(Wrap("reading PDF file: ", readFileError(env.docPath, env.docReadCause)))
           /\ UNCHANGED <<request, calls, outstanding>>
       ELSE
           /\ request' = RequestJSON(buildRequest(env.docData, opts))
           /\ calls' = calls + 1
           /\ outstanding' = outstanding + 1
           /\ pc' = "wait"
           /\ UNCHANGED <<err, exit, stderr>>
    /\ UNCHANGED <<metadata, env, op, opts, httpResp, resp, files, dirs, stdout, iter, imgIndex,
                   report, progress>>

\* the transport: the call fails, or the service answers
Transport ==
    /\ pc = "wait"
    /\ outstanding' = outstanding - 1
    /\ httpResp' = [present |-> TRUE, failed |-> env.transportFails,
                    status |-> env.status, body |-> ReplyBody(env)]
    /\ pc' = "receive"
    /\ UNCHANGED <<metadata, env, op, opts, request, calls, resp, files, dirs, stdout, stderr,
                   iter, imgIndex, exit, err, report, progress>>

\* doRequestResult with a bug: the body is decoded before the status is checked
doRequestResultDecodeFirst(h, readFails) ==
    IF h.failed THEN [err |-> Wrap("sending request: ", <<"transport failed">>), val |-> ZeroResponse]
    ELSE IF readFails THEN [err |-> Wrap("reading response: ", <<"read failed">>), val |-> ZeroResponse]
    ELSE Bind(UnmarshalOCRResponse(h.body), LAMBDA decoded :
        IF decoded.err
        THEN [err |-> Wrap("unmarshaling response: ", <<"invalid JSON or type">>), val |-> ZeroResponse]
        ELSE IF h.status # StatusOK THEN [err |-> apiError(h.status, h.body), val |-> ZeroResponse]
        ELSE [err |-> NoError, val |-> decoded.val])

\* doRequest, lines 207-227: [err, val] for an answer of the transport
doRequestResult(h, readFails) ==
    IF h.failed THEN [err |-> Wrap("sending request: ", <<"transport failed">>), val |-> ZeroResponse]
    ELSE IF readFails THEN [err |-> Wrap("reading response: ", <<"read failed">>), val |-> ZeroResponse]
    ELSE IF h.status # StatusOK THEN [err |-> apiError(h.status, h.body), val |-> ZeroResponse]
    ELSE Bind(UnmarshalOCRResponse(h.body), LAMBDA decoded :
        IF decoded.err
        THEN [err |-> Wrap("unmarshaling response: ", <<"invalid JSON or type">>), val |-> ZeroResponse]
        ELSE [err |-> NoError, val |-> decoded.val])

\* Receive with a bug: a call that failed is made once more
ReceiveRetry ==
    /\ op = "run"
    /\ pc = "receive"
    /\ \E r \in {doRequestResult(httpResp, env.readBodyFails)} :
           IF r.err # NoError /\ calls < 2 THEN
               /\ pc' = "process"
               /\ UNCHANGED <<resp, progress, err, exit, stderr>>
           ELSE IF r.err # NoError THEN
               /\ Fail(r.err)
               /\ UNCHANGED <<resp, progress>>
           ELSE
               /\ resp' = r.val
               /\ pc' = "text"
               /\ progress' = Progress(report, progress,
                                       <<"Extracted ">> \o FormatInt(Len(r.val.Pages))
                                           \o <<" pages\n">>)
               /\ UNCHANGED <<err, exit, stderr>>
    /\ httpResp' = NoHTTP
    /\ UNCHANGED <<metadata, env, op, opts, request, calls, outstanding, files, dirs, stdout,
                   iter, imgIndex, report>>

\* doRequest returns, and run goes on at line 152
Receive ==
    /\ op = "run"
    /\ pc = "receive"
    /\ \E r \in {doRequestResult(httpResp, env.readBodyFails)} :
           IF r.err # NoError THEN
               /\ Fail(r.err)
               /\ UNCHANGED <<resp, progress>>
           ELSE
               /\ resp' = r.val
               /\ pc' = "text"
               /\ progress' = Progress(report, progress,
                                       <<"Extracted ">> \o FormatInt(Len(r.val.Pages))
                                           \o <<" pages\n">>)
               /\ UNCHANGED <<err, exit, stderr>>
    /\ httpResp' = NoHTTP
    /\ UNCHANGED <<metadata, env, op, opts, request, calls, outstanding, files, dirs, stdout,
                   iter, imgIndex, report>>

\* WriteText with a bug: a failure to write the markdown file is passed over
WriteTextUnchecked ==
    /\ pc = "text"
    /\ files' = IF "text" \in env.failWrite THEN files
                ELSE WriteFile(files, textPath, FileText(extractText(resp).text))
    /\ pc' = "annotation"
    /\ progress' = Verbose(report, progress,
                           <<"Wrote text to: ">> \o textPath \o <<"\n">>)
    /\ UNCHANGED <<err, exit, stderr>>
    /\ UNCHANGED <<metadata, env, op, opts, request, calls, outstanding, httpResp, resp, dirs,
                   stdout, iter, imgIndex, report>>

\* run, lines 158-165: the markdown file
WriteText ==
    /\ pc = "text"
    /\ IF "text" \in env.failWrite THEN
           /\ Fail(Wrap("writing text file: ", <<"write failed">>))
           /\ UNCHANGED <<files, progress>>
       ELSE
           /\ files' = WriteFile(files, textPath, FileText(extractText(resp).text))
           /\ pc' = "annotation"
           /\ progress' = Verbose(report, progress,
                                  <<"Wrote text to: ">> \o textPath \o <<"\n">>)
           /\ UNCHANGED <<err, exit, stderr>>
    /\ UNCHANGED <<metadata, env, op, opts, request, calls, outstanding, httpResp, resp, dirs,
                   stdout, iter, imgIndex, report>>

\* WriteDocumentAnnotation with a bug: the error is reported and run goes on
WriteDocumentAnnotationReported ==
    /\ pc = "annotation"
    /\ IF resp.DocumentAnnotation.t # "null" THEN
           \E r \in {saveAnnotation(resp.DocumentAnnotation, annotationPath, files,
                                     "annotation" \in env.failWrite)} :
               /\ files' = r.fs
               /\ stderr' = IF r.err # NoError
                             THEN Append(stderr, <<"Error: ">> \o Wrap("writing document annotation: ", r.err))
                             ELSE stderr
       ELSE
           UNCHANGED <<files, stderr>>
    /\ pc' = "images"
    /\ UNCHANGED <<metadata, env, op, opts, request, calls, outstanding, httpResp, resp, dirs,
                   stdout, iter, imgIndex, err, exit, report, progress>>

\* WriteDocumentAnnotation with a bug: the annotation is written only when a
\* document schema was asked for
WriteDocumentAnnotationIfAsked ==
    /\ pc = "annotation"
    /\ IF resp.DocumentAnnotation.t # "null" /\ ~opts.DocumentSchema.nil THEN
           \E r \in {saveAnnotation(resp.DocumentAnnotation, annotationPath, files,
                                     "annotation" \in env.failWrite)} :
               IF r.err # NoError THEN
                   /\ Fail(Wrap("writing document annotation: ", r.err))
                   /\ UNCHANGED <<files, progress>>
               ELSE
                   /\ files' = r.fs
                   /\ pc' = "images"
                   /\ progress' = Verbose(report, progress,
                                          <<"Wrote document annotation to: ">>
                                              \o annotationPath \o <<"\n">>)
                   /\ UNCHANGED <<err, exit, stderr>>
       ELSE
           /\ pc' = "images"
           /\ UNCHANGED <<files, err, exit, stderr, progress>>
    /\ UNCHANGED <<metadata, env, op, opts, request, calls, outstanding, httpResp, resp, dirs,
                   stdout, iter, imgIndex, report>>

\* run, lines 167-174: the document annotation, if there is one
WriteDocumentAnnotation ==
    /\ pc = "annotation"
    /\ IF resp.DocumentAnnotation.t # "null" THEN
           \E r \in {saveAnnotation(resp.DocumentAnnotation, annotationPath, files,
                                     "annotation" \in env.failWrite)} :
               IF r.err # NoError THEN
                   /\ Fail(Wrap("writing document annotation: ", r.err))
                   /\ UNCHANGED <<files, progress>>
               ELSE
                   /\ files' = r.fs
                   /\ pc' = "images"
                   /\ progress' = Verbose(report, progress,
                                          <<"Wrote document annotation to: ">>
                                              \o annotationPath \o <<"\n">>)
                   /\ UNCHANGED <<err, exit, stderr>>
       ELSE
           /\ pc' = "images"
           /\ UNCHANGED <<files, err, exit, stderr, progress>>
    /\ UNCHANGED <<metadata, env, op, opts, request, calls, outstanding, httpResp, resp, dirs,
                   stdout, iter, imgIndex, report>>

\* StartImages with a bug: extractImages is called whatever the number of
\* images
StartImagesAlways ==
    /\ pc = "images"
    /\ IF "imagesdir" \in env.failWrite THEN
           /\ Fail(Wrap("creating images directory: ", <<"mkdir failed">>))
           /\ UNCHANGED <<dirs, imgIndex, iter, progress>>
       ELSE
           /\ dirs' = dirs \cup {imagesDir}
           /\ progress' = Progress(report, progress,
                                   <<"Extracting ">> \o FormatInt(countImages(resp))
                                       \o <<" images\n">>)
           /\ imgIndex' = 0
           /\ iter' = 0
           /\ pc' = IF countImages(resp) > 0 THEN "image" ELSE "print"
           /\ UNCHANGED <<err, exit, stderr>>
    /\ UNCHANGED <<metadata, env, op, opts, request, calls, outstanding, httpResp, resp, files,
                   stdout, report>>

\* run, line 176, and extractImages, lines 215-223: the images directory
StartImages ==
    /\ pc = "images"
    /\ IF extractText(resp).imageCount > 0 THEN
           IF "imagesdir" \in env.failWrite THEN
               /\ Fail(Wrap("creating images directory: ", <<"mkdir failed">>))
               /\ UNCHANGED <<dirs, imgIndex, iter, progress>>
           ELSE
               /\ dirs' = dirs \cup {imagesDir}
               /\ progress' = Progress(report, progress,
                                       <<"Extracting ">> \o FormatInt(countImages(resp))
                                           \o <<" images\n">>)
               /\ imgIndex' = 0
               /\ iter' = 0
               /\ pc' = "image"
               /\ UNCHANGED <<err, exit, stderr>>
       ELSE
           /\ pc' = "print"
           /\ UNCHANGED <<dirs, imgIndex, iter, err, exit, stderr, progress>>
    /\ UNCHANGED <<metadata, env, op, opts, request, calls, outstanding, httpResp, resp, files,
                   stdout, report>>

\* nextImgIndex with a bug: an image that failed does not count
nextImgIndexSkipFailed(i, saveFailed) == IF saveFailed THEN i ELSE i + 1

\* the value of imgIndex after one iteration of the loop (lines 229 and 242)
nextImgIndex(i, saveFailed) == i + 1

\* extractImages, lines 225-243: one iteration of the loop
ExtractImage ==
    /\ pc = "image"
    /\ \E its \in {imageIterations(resp.Pages)} :
          /\ iter < Len(its)
          /\ \E saved \in {saveImage(its[iter + 1].img, its[iter + 1].pageIndex, imgIndex,
                                      imagesDir, files, imgIndex \in env.failImage)} :
                /\ progress' = IF saved.err # NoError THEN progress
                                ELSE Verbose(report, progress,
                                             <<"Wrote image: ">> \o saved.path \o <<"\n">>)
                /\ IF saved.err # NoError THEN
                       /\ stderr' = Append(stderr, <<"Error: ">> \o saved.err)
                       /\ UNCHANGED files
                   ELSE IF env.extractMetadata /\ its[iter + 1].img.ImageAnnotation.t # "null" THEN
                       \E meta \in {saveAnnotationMetadata(its[iter + 1].img.ImageAnnotation,
                                                            saved.path, saved.fs,
                                                            imgIndex \in env.failMeta)} :
                           IF meta.err # NoError THEN
                               /\ stderr' = Append(stderr, <<"Error saving metadata for ">>
                                                           \o saved.path \o <<": ">> \o meta.err)
                               /\ files' = saved.fs
                           ELSE
                               /\ files' = meta.fs
                               /\ UNCHANGED stderr
                   ELSE
                       /\ files' = saved.fs
                       /\ UNCHANGED stderr
                /\ imgIndex' = nextImgIndex(imgIndex, saved.err # NoError)
          /\ pc' = IF iter + 1 = Len(its) THEN "print" ELSE "image"
    /\ iter' = iter + 1
    /\ UNCHANGED <<metadata, env, op, opts, request, calls, outstanding, httpResp, resp, dirs,
                   stdout, exit, err, report>>

\* PrintPath with a bug: the path is printed twice
PrintPathTwice ==
    /\ pc = "print"
    /\ stdout' = stdout \o <<textPath, textPath>>
    /\ exit' = 0
    /\ pc' = "done"
    /\ UNCHANGED <<metadata, env, op, opts, request, calls, outstanding, httpResp, resp, files,
                   dirs, stderr, iter, imgIndex, err, report, progress>>

\* run, lines 182-183: the path of the markdown file on stdout
PrintPath ==
    /\ pc = "print"
    /\ stdout' = Append(stdout, textPath)
    /\ exit' = 0
    /\ pc' = "done"
    /\ UNCHANGED <<metadata, env, op, opts, request, calls, outstanding, httpResp, resp, files,
                   dirs, stderr, iter, imgIndex, err, report, progress>>

(***************************************************************************)
(* Client.AnalyzeImage.  The chat types (ChatRequest, ChatMessage,         *)
(* ContentPart, ChatResponse, ChatChoice) are declared at the end of       *)
(* client_test.go, lines 420-448: their JSON is                            *)
(* {model, messages: [{role, content: [{type, text}, {type, image_url}]}]} *)
(* and {choices: [{message: {role, content}}]}.                            *)
(***************************************************************************)
\* const visionModel
visionModel == <<"p", "i", "x", "t", "r", "a", "l", "-", "l", "a", "r", "g", "e", "-", "l", "a", "t", "e", "s", "t">>

\* const imageAnalysisPrompt (its first words)
imageAnalysisPrompt == <<"A", "n", "a", "l", "y", "z", "e", " ", "t", "h", "i", "s", " ", "i", "m", "a", "g", "e", " ", "a", "n", "d", " ", "r", "e", "s", "p", "o", "n", "d", " ", "w", "i", "t", "h", " ", "J", "S", "O", "N", " ", "o", "n", "l", "y">>

\* type ImageMetadata
ImageMetadata(description, type, structuredData) ==
    [Description |-> description, Type |-> type, StructuredData |-> structuredData]

ZeroMetadata == ImageMetadata(<<>>, <<>>, JNull)

\* json.Marshal(chatReq), lines 110-122
ChatRequestJSON(imageBase64) ==
    MapOf(<<<<<<"m", "o", "d", "e", "l">>, JStr(visionModel)>>,
            <<<<"m", "e", "s", "s", "a", "g", "e", "s">>,
              JArr(<<MapOf(<<<<<<"r", "o", "l", "e">>, JStr(<<"u", "s", "e", "r">>)>>,
                             <<<<"c", "o", "n", "t", "e", "n", "t">>,
                               JArr(<<MapOf(<<<<<<"t", "y", "p", "e">>, JStr(<<"t", "e", "x", "t">>)>>,
                                              <<<<"t", "e", "x", "t">>, JStr(imageAnalysisPrompt)>>>>),
                                      MapOf(<<<<<<"t", "y", "p", "e">>, JStr(<<"i", "m", "a", "g", "e", "_", "u", "r", "l">>)>>,
                                              <<<<"i", "m", "a", "g", "e", "_", "u", "r", "l">>, JStr(imageBase64)>>>>)>>)>>>>)>>)>>>>)

\* json.Unmarshal(respBody, &chatResp): [err, choices], each choice the
\* content of its message
DecodeChoice(v) ==
    IF v.t = "null" THEN [err |-> FALSE, val |-> JNull]
    ELSE IF v.t # "obj" THEN [err |-> TRUE, val |-> JNull]
    ELSE IF MapGet(v, <<"m", "e", "s", "s", "a", "g", "e">>).t = "null" THEN [err |-> FALSE, val |-> JNull]
    ELSE IF MapGet(v, <<"m", "e", "s", "s", "a", "g", "e">>).t # "obj" THEN [err |-> TRUE, val |-> JNull]
    ELSE IF DecodeStr(MapGet(MapGet(v, <<"m", "e", "s", "s", "a", "g", "e">>), <<"r", "o", "l", "e">>)).err THEN [err |-> TRUE, val |-> JNull]
    ELSE [err |-> FALSE, val |-> MapGet(MapGet(v, <<"m", "e", "s", "s", "a", "g", "e">>), <<"c", "o", "n", "t", "e", "n", "t">>)]

DecodeChoices(c) ==
    IF c.t = "null" THEN [err |-> FALSE, choices |-> <<>>]
    ELSE IF c.t # "arr" THEN [err |-> TRUE, choices |-> <<>>]
    ELSE Bind([i \in 1..Len(c.kids) |-> DecodeChoice(c.kids[i])], LAMBDA ds :
             [err |-> \E i \in 1..Len(ds) : ds[i].err,
              choices |-> [i \in 1..Len(ds) |-> ds[i].val]])

UnmarshalChatResponse(text) ==
    Bind(Unmarshal(text), LAMBDA p :
        IF p.err THEN [err |-> TRUE, choices |-> <<>>]
        ELSE IF p.val.t = "null" THEN [err |-> FALSE, choices |-> <<>>]
        ELSE IF p.val.t # "obj" THEN [err |-> TRUE, choices |-> <<>>]
        ELSE Bind(MapGet(p.val, <<"c", "h", "o", "i", "c", "e", "s">>), LAMBDA c : DecodeChoices(c)))

\* json.Unmarshal([]byte(jsonStr), &metadata)
UnmarshalImageMetadata(text) ==
    Bind(Unmarshal(text), LAMBDA p :
        IF p.err THEN [err |-> TRUE, val |-> ZeroMetadata]
        ELSE IF p.val.t = "null" THEN [err |-> FALSE, val |-> ZeroMetadata]
        ELSE IF p.val.t # "obj" THEN [err |-> TRUE, val |-> ZeroMetadata]
        ELSE
            Bind(DecodeStr(MapGet(p.val, <<"d", "e", "s", "c", "r", "i", "p", "t", "i", "o", "n">>)), LAMBDA d :
            Bind(DecodeStr(MapGet(p.val, <<"t", "y", "p", "e">>)), LAMBDA ty :
                [err |-> d.err \/ ty.err,
                 val |-> ImageMetadata(d.val, ty.val, MapGet(p.val, <<"s", "t", "r", "u", "c", "t", "u", "r", "e", "d", "_", "d", "a", "t", "a">>))])))

Fence == <<Backtick, Backtick, Backtick>>

\* AnalyzeImage, lines 165-176: the markdown code block wrapper is removed
\* lines 168-170: the first line is removed
dropFirstLine(jsonStr) ==
    Bind(Index(jsonStr, <<"\n">>), LAMBDA idx :
        IF idx # -1 THEN SliceFrom(jsonStr, idx + 1) ELSE jsonStr)

\* lines 172-174: the closing fence and what follows it are removed
dropClosingFence(jsonStr) ==
    Bind(LastIndex(jsonStr, Fence), LAMBDA idx :
        IF idx # -1 THEN SliceTo(jsonStr, idx) ELSE jsonStr)

stripCodeFence(content_str) ==
    Bind(TrimSpace(content_str), LAMBDA jsonStr :
        IF HasPrefix(jsonStr, Fence)
        THEN TrimSpace(dropClosingFence(dropFirstLine(jsonStr)))
        ELSE jsonStr)

\* analyzeResult with a bug: a response without choices gives empty metadata
analyzeResultEmptyOk(h, readFails) ==
    IF h.failed THEN [err |-> Wrap("sending request: ", <<"transport failed">>), val |-> ZeroMetadata]
    ELSE IF readFails THEN [err |-> Wrap("reading response: ", <<"read failed">>), val |-> ZeroMetadata]
    ELSE IF h.status # StatusOK THEN [err |-> apiError(h.status, h.body), val |-> ZeroMetadata]
    ELSE Bind(UnmarshalChatResponse(h.body), LAMBDA chat :
        IF chat.err THEN [err |-> Wrap("unmarshaling response: ", <<"invalid JSON or type">>), val |-> ZeroMetadata]
        ELSE IF Len(chat.choices) = 0 THEN [err |-> NoError, val |-> ZeroMetadata]
        ELSE IF chat.choices[1].t # "str" THEN [err |-> <<"unexpected content type in response">>, val |-> ZeroMetadata]
        ELSE Bind(UnmarshalImageMetadata(stripCodeFence(chat.choices[1].s)), LAMBDA parsed :
            IF parsed.err THEN [err |-> Wrap("parsing metadata JSON: ", <<"invalid JSON or type">>), val |-> ZeroMetadata]
            ELSE [err |-> NoError, val |-> parsed.val]))

\* AnalyzeImage, lines 135-184: [err, val] for an answer of the transport
analyzeResult(h, readFails) ==
    IF h.failed THEN [err |-> Wrap("sending request: ", <<"transport failed">>), val |-> ZeroMetadata]
    ELSE IF readFails THEN [err |-> Wrap("reading response: ", <<"read failed">>), val |-> ZeroMetadata]
    ELSE IF h.status # StatusOK THEN [err |-> apiError(h.status, h.body), val |-> ZeroMetadata]
    ELSE Bind(UnmarshalChatResponse(h.body), LAMBDA chat :
        IF chat.err THEN [err |-> Wrap("unmarshaling response: ", <<"invalid JSON or type">>), val |-> ZeroMetadata]
        ELSE IF Len(chat.choices) = 0 THEN [err |-> <<"no response choices returned">>, val |-> ZeroMetadata]
        ELSE IF chat.choices[1].t # "str" THEN [err |-> <<"unexpected content type in response">>, val |-> ZeroMetadata]
        ELSE Bind(UnmarshalImageMetadata(stripCodeFence(chat.choices[1].s)), LAMBDA parsed :
            IF parsed.err THEN [err |-> Wrap("parsing metadata JSON: ", <<"invalid JSON or type">>), val |-> ZeroMetadata]
            ELSE [err |-> NoError, val |-> parsed.val]))

\* AnalyzeImage, lines 110-135: the request is sent
AnalyzeSend ==
    /\ op = "analyze"
    /\ pc = "start"
    /\ request' = ChatRequestJSON(env.imageURL)
    /\ calls' = calls + 1
    /\ outstanding' = outstanding + 1
    /\ pc' = "wait"
    /\ UNCHANGED <<env, op, opts, httpResp, resp, files, dirs, stdout, stderr, iter,
                   imgIndex, exit, err, metadata, report, progress>>

\* AnalyzeImage returns
AnalyzeReceive ==
    /\ op = "analyze"
    /\ pc = "receive"
    /\ \E r \in {analyzeResult(httpResp, env.readBodyFails)} :
           /\ err' = r.err
           /\ metadata' = r.val
    /\ pc' = "returned"
    /\ httpResp' = NoHTTP
    /\ UNCHANGED <<env, op, opts, request, calls, outstanding, resp, files, dirs, stdout,
                   stderr, iter, imgIndex, exit, report, progress>>

(***************************************************************************)
(* The inputs of the model.                                                *)
(***************************************************************************)
\* image payloads: "ABC" as raw base64 and behind data-URL prefixes, payloads
\* that do not decode, raw base64 that spells a MIME type, and a comma that
\* belongs to no prefix
PayloadRaw == <<"Q", "U", "J", "D">>
PayloadJPEG == <<"d", "a", "t", "a", ":", "i", "m", "a", "g", "e", "/", "j", "p", "e", "g", ";", "b", "a", "s", "e", "6", "4", ",", "Q", "U", "I", "=">>
PayloadGIF == <<"d", "a", "t", "a", ":", "i", "m", "a", "g", "e", "/", "g", "i", "f", ";", "b", "a", "s", "e", "6", "4", ",", "Q", "Q", "=", "=">>
PayloadWebP == <<"d", "a", "t", "a", ":", "i", "m", "a", "g", "e", "/", "w", "e", "b", "p", ";", "b", "a", "s", "e", "6", "4", ",", "Q", "U", "J", "D">>
PayloadPNG == <<"d", "a", "t", "a", ":", "i", "m", "a", "g", "e", "/", "p", "n", "g", ";", "b", "a", "s", "e", "6", "4", ",", "Q", "U", "J", "D">>
PayloadCorrupt == <<"Q", "U", "!", "D">>
PayloadCorruptURL == <<"d", "a", "t", "a", ":", "i", "m", "a", "g", "e", "/", "j", "p", "e", "g", ";", "b", "a", "s", "e", "6", "4", ",", "Q", "U", "J">>
PayloadEmpty == <<>>
PayloadSpellsJPEG == <<"i", "m", "a", "g", "e", "/", "j", "p", "e", "g", "A", "A">>
PayloadComma == <<"x", ",", "Q", "U", "J", "D">>

\* annotations as the service may send them: structured, or JSON in a string
AnnObject == MapOf(<<<<<<"a">>, JNum(1)>>>>)
AnnObjectString == JStr(<<"{", "\"", "a", "\"", ":", "1", "}">>)
AnnObject2String == JStr(<<"{", " ", "\"", "b", "\"", " ", ":", " ", "[", "t", "r", "u", "e", ",", " ", "n", "u", "l", "l", "]", ",", " ", "\"", "a", "\"", " ", ":", " ", "\"", "x", "\"", " ", "}">>)
AnnMalformed == JStr(<<"{", "n", "o", "t", " ", "j", "s", "o", "n">>)
AnnArray == JArr(<<JNum(2), JStr(<<"x">>)>>)
AnnNumber == JNum(7)
AnnBool == JBool(TRUE)
AnnNullString == JStr(<<"n", "u", "l", "l">>)
AnnPlainString == JStr(<<"h", "e", "l", "l", "o">>)
AnnQuotedString == JStr(<<"\"", "5", "\"">>)
AnnNested == MapOf(<<<<<<"k">>, JArr(<<AnnObject>>)>>, <<<<"s">>, JStr(<<"5">>)>>>>)

AllPayloads ==
    {PayloadRaw, PayloadJPEG, PayloadGIF, PayloadWebP, PayloadPNG, PayloadCorrupt,
     PayloadCorruptURL, PayloadEmpty, PayloadSpellsJPEG, PayloadComma}

AllAnnotations ==
    {JNull, AnnObject, AnnObjectString, AnnObject2String, AnnMalformed, AnnArray,
     AnnNumber, AnnBool, AnnNullString, AnnPlainString, AnnQuotedString, AnnNested}

\* the images the pipeline runs are made of
PipelineImages ==
    {Image(<<"i", "m", "g", "-", "0">>, PayloadJPEG, AnnObject),
     Image(<<"i", "m", "g", "-", "1">>, PayloadCorrupt, AnnObjectString),
     Image(<<"i", "m", "g", "-", "1">>, PayloadRaw, AnnMalformed)}

\* sequences of at most n elements of a set
SeqsUpTo(S, n) == UNION {[1..k -> S] : k \in 0..n}

\* the pages of a run with the given index: a markdown text and at most
\* `budget` images
PagesFrom(images, budget, index) ==
    {Page(index, IF index % 2 = 0 THEN <<"A">> ELSE <<"B", "\n">>, imgs) :
        imgs \in SeqsUpTo(images, budget)}

\* sequences of n pages with at most `budget` images in all, with the
\* indexes first, first + step, ...
RECURSIVE PageSeqs(_, _, _, _, _)
PageSeqs(images, n, budget, first, step) ==
    IF n = 0 THEN {<<>>}
    ELSE UNION {{<<p>> \o rest :
                    rest \in PageSeqs(images, n - 1, budget - Len(p.Images), first + step, step)} :
                   p \in PagesFrom(images, budget, first)}

\* the pages listed by increasing index, and by decreasing index
PipelineResponses ==
    UNION {{OCRResponse(pages, AnnObjectString) :
               pages \in PageSeqs(PipelineImages, n, MaxImages, 0, 1)
                            \cup PageSeqs(PipelineImages, n, MaxImages, n - 1, -1)} :
              n \in 0..MaxPages}

BaseEnv ==
    [docPath |-> <<"i", "n", "/", "d", "o", "c", ".", "p", "d", "f">>, docExists |-> TRUE, docReadFails |-> FALSE,
     docReadCause |-> "no such file or directory",
     docData |-> <<37, 80, 68, 70>>, apiKey |-> TRUE,
     outDir |-> <<"o", "u", "t">>, outDirFails |-> FALSE,
     extractMetadata |-> FALSE, schemaFlag |-> "none", schema |-> NilSchema,
     transportFails |-> FALSE, readBodyFails |-> FALSE, status |-> 200,
     bodyKind |-> "result", result |-> ZeroResponse, text |-> <<>>,
     failWrite |-> {}, failImage |-> {}, failMeta |-> {},
     quiet |-> FALSE, verbose |-> FALSE,
     imageURL |-> <<>>]

\* runs of the pipeline over responses of every shape
PipelineEnvs ==
    {[BaseEnv EXCEPT !.result = r, !.extractMetadata = m] :
        r \in PipelineResponses, m \in BOOLEAN}

\* a response with two images that decode and annotations that normalize
SoundResponse ==
    OCRResponse(<<Page(0, <<"A">>, <<Image(<<"i", "m", "g", "-", "0">>, PayloadJPEG, AnnObject)>>),
                  Page(1, <<>>, <<Image(<<"i", "m", "g", "-", "1">>, PayloadRaw, AnnObjectString)>>)>>,
                AnnObject)

\* runs in which one step before the output fails
EarlyFaultEnvs ==
    {[BaseEnv EXCEPT !.result = SoundResponse, !.docExists = FALSE],
     [BaseEnv EXCEPT !.result = SoundResponse, !.apiKey = FALSE],
     [BaseEnv EXCEPT !.result = SoundResponse, !.outDirFails = TRUE],
     [BaseEnv EXCEPT !.result = SoundResponse, !.schemaFlag = "bad"],
     [BaseEnv EXCEPT !.result = SoundResponse, !.docReadFails = TRUE],
     [BaseEnv EXCEPT !.result = SoundResponse, !.docReadFails = TRUE,
                     !.docReadCause = "permission denied", !.docPath = <<"s", "c", "a", "n", ".", "p", "n", "g">>],
     [BaseEnv EXCEPT !.result = SoundResponse, !.transportFails = TRUE],
     [BaseEnv EXCEPT !.result = SoundResponse, !.readBodyFails = TRUE]}

\* runs in which writes fail
WriteFaultEnvs ==
    {[BaseEnv EXCEPT !.result = SoundResponse, !.extractMetadata = m,
                     !.failWrite = w, !.failImage = fi, !.failMeta = fm] :
        m \in BOOLEAN, w \in SUBSET {"text", "annotation", "imagesdir"},
        fi \in SUBSET {0, 1}, fm \in SUBSET {0, 1}}

\* documents, options and answers of the service
DocPaths == {<<"i", "n", "/", "d", "o", "c", ".", "p", "d", "f">>, <<"s", "c", "a", "n", ".", "p", "n", "g">>, <<"a", ".", "b", "/", "p", "h", "o", "t", "o", ".", "j", "p", "e", "g">>, <<"x", ".", "g", "i", "f">>, <<"i", "n", "/", "y", ".", "w", "e", "b", "p">>}

DocDatas == {<<>>, <<37>>, <<37, 80>>, <<37, 80, 68, 70>>}

DocumentSchemas ==
    {SchemaPtr(<<"i", "n", "v", "o", "i", "c", "e">>, MapOf(<<<<<<"t", "y", "p", "e">>, JStr(<<"o", "b", "j", "e", "c", "t">>)>>>>)),
     SchemaPtr(<<"x">>, JObj(<<>>, <<>>))}

ErrorBodies ==
    {<<"{", "\"", "e", "r", "r", "o", "r", "\"", ":", " ", "\"", "i", "n", "v", "a", "l", "i", "d", " ", "a", "p", "i", " ", "k", "e", "y", "\"", "}">>, <<"B", "a", "d", " ", "G", "a", "t", "e", "w", "a", "y">>, <<>>,
     <<"{", "\"", "p", "a", "g", "e", "s", "\"", ":", "[", "]", "}">>}

OddBodies ==
    {<<"{", "}">>, <<"n", "u", "l", "l">>, <<"{", "\"", "p", "a", "g", "e", "s", "\"", ":", "1", "}">>, <<"{", "\"", "p", "a", "g", "e", "s", "\"", ":", "[", "{", "\"", "i", "n", "d", "e", "x", "\"", ":", "\"", "0", "\"", "}", "]", "}">>,
     <<"[", "]">>, <<"n", "o", "t", " ", "j", "s", "o", "n">>, <<"{", "\"", "p", "a", "g", "e", "s", "\"", ":", "n", "u", "l", "l", ",", "\"", "d", "o", "c", "u", "m", "e", "n", "t", "_", "a", "n", "n", "o", "t", "a", "t", "i", "o", "n", "\"", ":", "n", "u", "l", "l", "}">>}

RequestEnvs ==
    {[BaseEnv EXCEPT !.docPath = p, !.docData = d, !.extractMetadata = m,
                     !.schemaFlag = IF sc.nil THEN "none" ELSE "ok", !.schema = sc,
                     !.result = SoundResponse] :
        p \in DocPaths, d \in DocDatas, m \in BOOLEAN,
        sc \in DocumentSchemas \cup {NilSchema}}

ReplyEnvs ==
    {[BaseEnv EXCEPT !.status = st, !.bodyKind = "text", !.text = b] :
        st \in {200, 201, 401, 500}, b \in ErrorBodies \cup OddBodies}
    \cup {[BaseEnv EXCEPT !.status = st, !.result = SoundResponse] : st \in {201, 401}}

\* runs over annotations and payloads of every kind
AnnotationEnvs ==
    {[BaseEnv EXCEPT !.extractMetadata = TRUE,
                     !.result = OCRResponse(<<Page(0, <<"A">>, <<Image(<<"i", "m", "g", "-", "0">>, PayloadRaw, ia)>>)>>, da)] :
        ia \in AllAnnotations, da \in AllAnnotations}

PayloadEnvs ==
    {[BaseEnv EXCEPT !.extractMetadata = m,
                     !.result = OCRResponse(<<Page(2, <<"A">>, <<Image(<<"i", "m", "g", "-", "0">>, b, AnnObject)>>)>>, JNull)] :
        b \in AllPayloads, m \in BOOLEAN}

\* the content of a chat message: the metadata as JSON, bare and in a fence
MetadataText == <<"{", "\"", "d", "e", "s", "c", "r", "i", "p", "t", "i", "o", "n", "\"", ":", "\"", "d", "\"", ",", "\"", "t", "y", "p", "e", "\"", ":", "\"", "c", "h", "a", "r", "t", "\"", ",", "\"", "s", "t", "r", "u", "c", "t", "u", "r", "e", "d", "_", "d", "a", "t", "a", "\"", ":", "{", "\"", "a", "\"", ":", "1", "}", "}">>

\* the same metadata over several lines
MetadataLines == <<"{">> \o <<"\n">> \o <<" ", "\"", "d", "e", "s", "c", "r", "i", "p", "t", "i", "o", "n", "\"", ":", " ", "\"", "d", "\"", ",">> \o <<"\n">>
                     \o <<" ", "\"", "t", "y", "p", "e", "\"", ":", " ", "\"", "p", "h", "o", "t", "o", "\"">> \o <<"\n">> \o <<"}">>

ChatContents ==
    {JStr(MetadataText),
     JStr(Fence \o <<"j", "s", "o", "n", "\n">> \o MetadataText \o <<"\n">> \o Fence),
     JStr(Fence \o <<"\n">> \o MetadataText \o <<"\n">> \o Fence \o <<"\n">>),
     JStr(Fence \o <<"j", "s", "o", "n">> \o <<"\n">> \o MetadataText \o Fence),
     JStr(Fence \o MetadataText \o Fence),
     JStr(Fence \o <<"j", "s", "o", "n">> \o MetadataText \o Fence),
     JStr(Fence \o MetadataText \o <<"\n">> \o Fence),
     JStr(MetadataLines),
     JStr(<<" ">> \o Fence \o <<"j", "s", "o", "n">> \o <<"\n">> \o MetadataLines \o <<"\n">> \o Fence \o <<" ", "\n">>),
     JStr(Fence \o MetadataLines \o Fence),
     JStr(<<"n", "o", "t", " ", "j", "s", "o", "n">>),
     JArr(<<JStr(MetadataText)>>),
     JNull}

\* json.Marshal of a chat response with the given message contents
ChatBody(contents) ==
    Marshal(MapOf(<<<<<<"c", "h", "o", "i", "c", "e", "s">>,
                      JArr([i \in 1..Len(contents) |->
                          MapOf(<<<<<<"m", "e", "s", "s", "a", "g", "e">>,
                                    MapOf(<<<<<<"r", "o", "l", "e">>, JStr(<<"a", "s", "s", "i", "s", "t", "a", "n", "t">>)>>,
                                            <<<<"c", "o", "n", "t", "e", "n", "t">>, contents[i]>>>>)>>>>)])>>>>))

ChatBodies ==
    {ChatBody(<<c>>) : c \in ChatContents}
    \cup {ChatBody(<<JNull, JStr(MetadataText)>>), ChatBody(<<JStr(MetadataText), JNull>>),
          ChatBody(<<JNum(5)>>), <<"{", "\"", "c", "h", "o", "i", "c", "e", "s", "\"", ":", "[", "]", "}">>, <<"{", "\"", "c", "h", "o", "i", "c", "e", "s", "\"", ":", "n", "u", "l", "l", "}">>}
    \cup {ChatBody(<<>>), <<"{", "}">>, <<"n", "o", "t", " ", "j", "s", "o", "n">>, <<"{", "\"", "c", "h", "o", "i", "c", "e", "s", "\"", ":", "1", "}">>}

AnalyzeEnvs ==
    {[BaseEnv EXCEPT !.imageURL = PayloadPNG, !.status = st, !.bodyKind = "text", !.text = b] :
        st \in {200, 401, 500}, b \in ChatBodies}
    \cup {[BaseEnv EXCEPT !.imageURL = PayloadPNG, !.transportFails = TRUE],
          [BaseEnv EXCEPT !.imageURL = PayloadPNG, !.readBodyFails = TRUE]}

\* runs in every mode of the Reporter: one image fails, one is written
ReporterResponse ==
    OCRResponse(<<Page(0, <<"A">>, <<Image(<<"i", "m", "g", "-", "0">>, PayloadCorrupt, AnnObject),
                                    Image(<<"i", "m", "g", "-", "1">>, PayloadRaw, AnnObject)>>)>>,
                AnnObject)

ReporterEnvs ==
    {[BaseEnv EXCEPT !.result = r, !.extractMetadata = TRUE, !.quiet = q, !.verbose = v,
                     !.failWrite = w] :
        r \in {ReporterResponse, ZeroResponse}, q \in BOOLEAN, v \in BOOLEAN,
        w \in {{}, {"annotation"}}}

\* submits in which several steps would fail
OrderEnvs ==
    {[BaseEnv EXCEPT !.docReadFails = rd, !.transportFails = tr, !.readBodyFails = rb,
                     !.status = st, !.bodyKind = b.kind, !.text = b.text,
                     !.result = SoundResponse, !.verbose = TRUE] :
        rd \in BOOLEAN, tr \in BOOLEAN, rb \in BOOLEAN, st \in {200, 500},
        b \in {[kind |-> "result", text |-> <<>>], [kind |-> "text", text |-> <<"n", "o", "t", " ", "j", "s", "o", "n">>]}}

\* a body whose document_annotation is the JSON null
NullAnnotationBody == <<"{", "\"", "p", "a", "g", "e", "s", "\"", ":", "[", "{", "\"", "i", "n", "d", "e", "x", "\"", ":", "0", ",", "\"", "m", "a", "r", "k", "d", "o", "w", "n", "\"", ":", "\"", "A", "\"", ",", "\"", "i", "m", "a", "g", "e", "s", "\"", ":", "[", "]", "}", "]", ",", "\"", "d", "o", "c", "u", "m", "e", "n", "t", "_", "a", "n", "n", "o", "t", "a", "t", "i", "o", "n", "\"", ":", "n", "u", "l", "l", "}">>

\* runs with and without a document schema, over responses with and
\* without a document annotation
SchemaEnvs ==
    {[BaseEnv EXCEPT !.schemaFlag = IF sc.nil THEN "none" ELSE "ok", !.schema = sc,
                     !.bodyKind = b.kind, !.text = b.text,
                     !.result = OCRResponse(<<Page(0, <<"A">>, <<>>)>>, b.da)] :
        sc \in DocumentSchemas \cup {NilSchema},
        b \in {[kind |-> "result", text |-> <<>>, da |-> da] :
                  da \in {JNull, AnnObject, AnnObjectString, AnnMalformed}}
              \cup {[kind |-> "text", text |-> NullAnnotationBody, da |-> JNull]}}

\* runs over two pages of the same index whose images have the same id
RepeatImages ==
    {Image(<<"i", "m", "g", "-", "0">>, PayloadJPEG, AnnObject),
     Image(<<"i", "m", "g", "-", "0">>, PayloadRaw, AnnObjectString),
     Image(<<"i", "m", "g", "-", "0">>, PayloadCorrupt, AnnObject)}

RepeatEnvs ==
    {[BaseEnv EXCEPT !.extractMetadata = m,
                     !.result = OCRResponse(<<Page(1, <<"A">>, <<a>>), Page(1, <<"A">>, <<b>>)>>, JNull)] :
        a \in RepeatImages, b \in RepeatImages, m \in BOOLEAN}

\* the state before the operation starts
Start(e, o) ==
    /\ env = e
    /\ op = o
    /\ pc = "start"
    /\ opts = OCROptions(FALSE, NilSchema)
    /\ request = JNull
    /\ calls = 0
    /\ outstanding = 0
    /\ httpResp = NoHTTP
    /\ resp = ZeroResponse
    /\ files = <<>>
    /\ dirs = {}
    /\ stdout = <<>>
    /\ stderr = <<>>
    /\ iter = 0
    /\ imgIndex = 0
    /\ exit = -1
    /\ err = NoError
    /\ metadata = ZeroMetadata
    /\ report = NilReporter
    /\ progress = <<>>

Init ==
    \/ \E e \in PipelineEnvs : Start(e, "run")
    \/ \E e \in EarlyFaultEnvs : Start(e, "run")
    \/ \E e \in WriteFaultEnvs : Start(e, "run")
    \/ \E e \in RequestEnvs : Start(e, "run")
    \/ \E e \in ReplyEnvs : Start(e, "run")
    \/ \E e \in AnnotationEnvs : Start(e, "run")
    \/ \E e \in PayloadEnvs : Start(e, "run")
    \/ \E e \in AnalyzeEnvs : Start(e, "analyze")
    \/ \E e \in ReporterEnvs : Start(e, "run")
    \/ \E e \in OrderEnvs : Start(e, "run")
    \/ \E e \in SchemaEnvs : Start(e, "run")
    \/ \E e \in RepeatEnvs : Start(e, "run")

Next ==
    \/ Setup
    \/ ProcessDocument
    \/ Transport
    \/ Receive
    \/ WriteText
    \/ WriteDocumentAnnotation
    \/ StartImages
    \/ ExtractImage
    \/ PrintPath
    \/ AnalyzeSend
    \/ AnalyzeReceive

Spec == Init /\ [][Next]_vars

\* the operation is not over
Running == pc \notin {"done", "failed", "returned"}

\* The operation is one thread of control that takes its steps one after
\* the other; the remote call, made through http.DefaultClient with
\* context.Background(), returns when the service answers or the transport
\* fails, which it is taken to do.  This is weak fairness of Next, with
\* ENABLED <<Next>>_vars written as Running: every action is enabled by its
\* pc alone (ExtractImage by pc = "image", which holds only while an image
\* is left) and changes pc or iter.
FairSpec == Spec /\ (<>[]Running => []<><<Next>>_vars)

(***************************************************************************)
(* The properties.  They speak of a run by what it was given (env): the    *)
(* response the service sent, the options and the faults, classified here  *)
(* without the operators of the pipeline.                                  *)
(***************************************************************************)
\* the run reached the service, which answered 200 with the response env.result
Answered ==
    /\ op = "run"
    /\ env.docExists /\ env.apiKey /\ ~env.outDirFails /\ env.schemaFlag # "bad"
    /\ ~env.docReadFails /\ ~env.transportFails /\ ~env.readBodyFails
    /\ env.status = 200 /\ env.bodyKind = "result"

\* no write of the output phase fails
NoWriteFault == env.failWrite = {} /\ env.failImage = {} /\ env.failMeta = {}

\* the pages the service sent
SentPages == env.result.Pages

\* the images the service sent: <<p, j>> is image j of the p-th page listed
SentSlots ==
    UNION {{<<p, j>> : j \in 1..Len(SentPages[p].Images)} : p \in 1..Len(SentPages)}

SentImage(slot) == SentPages[slot[1]].Images[slot[2]]

\* the number of images on the first n pages listed
RECURSIVE ImagesOnFirst(_, _)
ImagesOnFirst(pages, n) ==
    IF n = 0 THEN 0 ELSE ImagesOnFirst(pages, n - 1) + Len(pages[n].Images)

\* the position of an image in the document, counting from 0 in page order
\* and then in image order within the page
RunningIndex(slot) == ImagesOnFirst(SentPages, slot[1] - 1) + slot[2] - 1

\* payloads that are not base64 once a data-URL prefix is taken off
CorruptPayload(payload) == payload \in {PayloadCorrupt, PayloadCorruptURL}

\* annotations that are text but not JSON
MalformedAnnotation(a) == a \in {AnnMalformed, AnnPlainString}

CorruptSlots == {slot \in SentSlots : CorruptPayload(SentImage(slot).ImageBase64)}

SoundSlots == SentSlots \ CorruptSlots

\* the images that are written and whose annotation is text but not JSON
MalformedSlots == {slot \in SoundSlots : MalformedAnnotation(SentImage(slot).ImageAnnotation)}

\* the images that are written and whose annotation is JSON
AnnotatedSlots ==
    {slot \in SoundSlots : /\ SentImage(slot).ImageAnnotation.t # "null"
                           /\ ~MalformedAnnotation(SentImage(slot).ImageAnnotation)}

\* the extension the file of a payload is given
ExtensionOf(payload) ==
    IF payload \in {PayloadJPEG, PayloadCorruptURL, PayloadSpellsJPEG} THEN <<".", "j", "p", "g">>
    ELSE IF payload = PayloadGIF THEN <<".", "g", "i", "f">>
    ELSE IF payload = PayloadWebP THEN <<".", "w", "e", "b", "p">>
    ELSE <<".", "p", "n", "g">>

\* <outDir>/images/page_<index of the page>_img_<running index>, for
\* numbers of one digit
SlotStem(slot) ==
    env.outDir \o <<"/", "i", "m", "a", "g", "e", "s", "/", "p", "a", "g", "e", "_">> \o <<DigitChars[SentPages[slot[1]].Index + 1]>>
               \o <<"_", "i", "m", "g", "_">> \o <<DigitChars[RunningIndex(slot) + 1]>>

SlotImagePath(slot) == SlotStem(slot) \o ExtensionOf(SentImage(slot).ImageBase64)

SlotMetadataPath(slot) == SlotStem(slot) \o <<".", "j", "s", "o", "n">>

\* the files that hold image data
DataPaths == {f \in DOMAIN files : files[f].kind = "data"}

\* the lines of stderr that report an image that does not decode
DecodeErrorLines ==
    {i \in 1..Len(stderr) : stderr[i] = <<"Error: ", "decoding image: ", "illegal base64 data">>}

\* the lines of stderr that report the annotation of an image as malformed
MetadataErrorLine(slot) ==
    <<"Error saving metadata for ">> \o SlotImagePath(slot)
        \o <<": ", "parsing annotation JSON string: ", "invalid JSON">>

MarkdownWritten == textPath \in DOMAIN files

DocumentAnnotationWritten == annotationPath \in DOMAIN files

(***************************************************************************)
(* C1: per-image failure isolation.                                        *)
(***************************************************************************)
\* C1 as stated: for any response with M images of which K do not decode,
\* the run ends successfully with exactly M-K image files and exactly K
\* per-image errors, the markdown file and any document annotation written.
C1_AsStated ==
    (Answered /\ NoWriteFault /\ pc \in {"done", "failed"}) =>
        /\ exit = 0
        /\ Cardinality(DataPaths) = Cardinality(SoundSlots)
        /\ Len(stderr) = Cardinality(CorruptSlots)
        /\ MarkdownWritten
        /\ (env.result.DocumentAnnotation.t # "null" => DocumentAnnotationWritten)

\* C1, amended: when the document annotation (if any) is not malformed and no
\* write fails, the run never fails, and it ends with exactly M-K image
\* files, one at the place of every image that decodes, exactly K image
\* decode errors, one metadata error for every written image whose
\* annotation is malformed if -m is given and no other error, the markdown
\* file and any document annotation written, and exit code 0.
C1_Isolation ==
    (Answered /\ NoWriteFault /\ ~MalformedAnnotation(env.result.DocumentAnnotation)) =>
        /\ pc # "failed"
        /\ pc = "done" =>
              /\ exit = 0
              /\ stdout = <<textPath>>
              /\ Cardinality(DataPaths) = Cardinality(SoundSlots)
              /\ \A slot \in SoundSlots : SlotImagePath(slot) \in DataPaths
              /\ Cardinality(DecodeErrorLines) = Cardinality(CorruptSlots)
              /\ Len(stderr) = Cardinality(CorruptSlots)
                                 + (IF env.extractMetadata THEN Cardinality(MalformedSlots) ELSE 0)
              /\ MarkdownWritten
              /\ (env.result.DocumentAnnotation.t # "null" <=> DocumentAnnotationWritten)

\* a run that ended with an image written, an image skipped and a document
\* annotation
C1_Witness ==
    /\ Answered /\ NoWriteFault /\ pc = "done"
    /\ CorruptSlots # {} /\ SoundSlots # {}
    /\ DocumentAnnotationWritten

(***************************************************************************)
(* C2: the content of the markdown file.                                   *)
(***************************************************************************)
\* s[1], s[2], ... with a blank line between consecutive elements
RECURSIVE JoinBlankLine(_)
JoinBlankLine(s) ==
    IF s = <<>> THEN <<>>
    ELSE IF Len(s) = 1 THEN s[1]
    ELSE s[1] \o <<"\n", "\n">> \o JoinBlankLine(Tail(s))

\* the orders of the pages sent in which the index field does not decrease
IndexOrders ==
    {f \in [1..Len(SentPages) -> 1..Len(SentPages)] :
        /\ \A a, b \in 1..Len(SentPages) : a # b => f[a] # f[b]
        /\ \A a, b \in 1..Len(SentPages) :
              a < b => SentPages[f[a]].Index <= SentPages[f[b]].Index}

\* C2 as stated: the markdown file holds the pages' markdown in the order of
\* their index fields, with a blank line between consecutive pages only.
C2_AsStated ==
    (Answered /\ MarkdownWritten) =>
        \E f \in IndexOrders :
            files[textPath] =
                FileText(JoinBlankLine([a \in 1..Len(SentPages) |-> SentPages[f[a]].Markdown]))

\* the length of the markdown of the first n pages listed, each with the
\* two line feeds that follow it
RECURSIVE TextOffset(_, _)
TextOffset(pages, n) ==
    IF n = 0 THEN 0 ELSE TextOffset(pages, n - 1) + Len(pages[n].Markdown) + 2

\* C2, amended: the markdown file holds the pages' markdown in the order the
\* response lists them, each page (the last one too) followed by a blank
\* line, and nothing else.
C2_ListOrder ==
    (Answered /\ MarkdownWritten) =>
        /\ files[textPath].kind = "text"
        /\ Len(files[textPath].text) = TextOffset(SentPages, Len(SentPages))
        /\ \A n \in 1..Len(SentPages) :
              /\ SubSeq(files[textPath].text, TextOffset(SentPages, n - 1) + 1,
                        TextOffset(SentPages, n) - 2) = SentPages[n].Markdown
              /\ SubSeq(files[textPath].text, TextOffset(SentPages, n) - 1,
                        TextOffset(SentPages, n)) = <<"\n", "\n">>

\* the markdown file of a response that lists page 1 before page 0
C2_Witness ==
    /\ Answered /\ MarkdownWritten /\ pc = "done"
    /\ Len(SentPages) = 2
    /\ SentPages[1].Index > SentPages[2].Index
    /\ SentPages[1].Markdown # SentPages[2].Markdown

(***************************************************************************)
(* C3: malformed annotations.                                              *)
(***************************************************************************)
\* an annotation of the response is text but not JSON: the document's, or
\* with -m that of an image that is written
SomeAnnotationMalformed ==
    \/ MalformedAnnotation(env.result.DocumentAnnotation)
    \/ env.extractMetadata /\ MalformedSlots # {}

\* C3 as stated: a malformed annotation, of the document or of an image,
\* does not keep the other artifacts from being written: the markdown file,
\* every image that decodes and every annotation that is well formed.
C3_AsStated ==
    (Answered /\ NoWriteFault /\ SomeAnnotationMalformed /\ pc \in {"done", "failed"}) =>
        /\ MarkdownWritten
        /\ \A slot \in SoundSlots : SlotImagePath(slot) \in DataPaths
        /\ env.extractMetadata => \A slot \in AnnotatedSlots : SlotMetadataPath(slot) \in DOMAIN files
        /\ (env.result.DocumentAnnotation.t # "null"
              /\ ~MalformedAnnotation(env.result.DocumentAnnotation)) => DocumentAnnotationWritten

\* C3, amended: with -m, a malformed annotation of an image that is written
\* is reported on stderr with the path of the image, no metadata file is
\* written for it, and the run goes on to success with the markdown file,
\* the document annotation, every image that decodes and the metadata of
\* every well-formed image annotation written.  A malformed document
\* annotation ends the run with the error "writing document annotation:
\* parsing annotation JSON string: ..." and exit code 1: the markdown file
\* stays, no image is written, and the run never reaches its end.
C3_Malformed ==
    (Answered /\ NoWriteFault) =>
        /\ (pc = "done" /\ env.extractMetadata) =>
              /\ \A slot \in MalformedSlots :
                    /\ \E i \in 1..Len(stderr) : stderr[i] = MetadataErrorLine(slot)
                    /\ SlotMetadataPath(slot) \notin DOMAIN files
              /\ \A slot \in SoundSlots : SlotImagePath(slot) \in DataPaths
              /\ \A slot \in AnnotatedSlots : SlotMetadataPath(slot) \in DOMAIN files
              /\ MarkdownWritten
              /\ env.result.DocumentAnnotation.t # "null" => DocumentAnnotationWritten
              /\ exit = 0
        /\ MalformedAnnotation(env.result.DocumentAnnotation) =>
              /\ pc \notin {"images", "image", "print", "done"}
              /\ pc = "failed" =>
                    /\ err = <<"writing document annotation: ",
                               "parsing annotation JSON string: ", "invalid JSON">>
                    /\ exit = 1
                    /\ MarkdownWritten
                    /\ ~DocumentAnnotationWritten
                    /\ DataPaths = {}

\* a run with -m that ended after an image with a malformed annotation and an
\* image with a well-formed one
C3_Witness ==
    /\ Answered /\ NoWriteFault /\ pc = "done" /\ env.extractMetadata
    /\ MalformedSlots # {} /\ AnnotatedSlots # {}
    /\ DocumentAnnotationWritten

(***************************************************************************)
(* C4 and C5: the normalization of annotations, on the annotations the     *)
(* run received.                                                           *)
(***************************************************************************)
\* the annotations of the decoded response: the document's and the images'
ReceivedAnnotations ==
    {resp.DocumentAnnotation}
        \cup UNION {{resp.Pages[p].Images[j].ImageAnnotation : j \in 1..Len(resp.Pages[p].Images)} :
                       p \in 1..Len(resp.Pages)}

\* normalize applied to its own result
NormalizeTwice(v) ==
    IF normalize(v).err # NoError THEN normalize(v) ELSE normalize(normalize(v).val)

\* C4 as stated: normalize(normalize(v)) = normalize(v) for every JSON value
\* v that normalizes, string scalars included.
C4_AsStated ==
    \A v \in ReceivedAnnotations :
        normalize(v).err = NoError => NormalizeTwice(v) = normalize(v)

\* C4, amended: normalize returns every JSON value that is not a string
\* (object, array, number, boolean, null) unchanged and without error, so
\* that normalize(normalize(v)) = normalize(v) for each of them; the same
\* holds of a string whose content is JSON for a value that is not a string.
C4_Idempotent ==
    \A v \in ReceivedAnnotations :
        /\ v.t # "str" =>
              /\ normalize(v) = [err |-> NoError, val |-> v]
              /\ NormalizeTwice(v) = normalize(v)
        /\ (v.t = "str" /\ normalize(v).err = NoError /\ normalize(v).val.t # "str") =>
              NormalizeTwice(v) = normalize(v)

\* a run that wrote a document annotation it received as an array or an
\* object holding an array
C4_Witness ==
    /\ pc = "done" /\ DocumentAnnotationWritten
    /\ resp.DocumentAnnotation \in {AnnArray, AnnNested}
    /\ files[annotationPath] = FileText(MarshalIndent(resp.DocumentAnnotation))

\* C5 as stated: for every JSON value x, normalizing a string that holds the
\* serialization of x gives what normalizing x itself gives.
C5_AsStated ==
    \A x \in ReceivedAnnotations :
        normalize(JStr(Marshal(x))) = normalize(x)

\* the metadata file of an image and the annotation file of the document
\* hold the same text
SameAnnotationFile(slot) ==
    /\ DocumentAnnotationWritten
    /\ SlotMetadataPath(slot) \in DOMAIN files
    /\ files[SlotMetadataPath(slot)] = files[annotationPath]

\* C5, amended: for every JSON value x that is not a string, normalizing a
\* string that holds the serialization of x, compact or indented, gives x,
\* as normalizing x itself does; and the document annotation and an image
\* annotation are written as the same text when one is x and the other a
\* string that holds the serialization of x.
C5_StringOrStructured ==
    /\ \A x \in ReceivedAnnotations :
          x.t # "str" =>
              /\ normalize(JStr(Marshal(x))) = normalize(x)
              /\ normalize(JStr(MarshalIndent(x))) = normalize(x)
              /\ normalize(x).val = x
    /\ (Answered /\ NoWriteFault /\ env.extractMetadata /\ pc = "done") =>
          \A slot \in SoundSlots :
              (\/ /\ env.result.DocumentAnnotation.t = "str"
                  /\ SentImage(slot).ImageAnnotation.t \notin {"str", "null"}
                  /\ env.result.DocumentAnnotation.s = Marshal(SentImage(slot).ImageAnnotation)
               \/ /\ SentImage(slot).ImageAnnotation.t = "str"
                  /\ env.result.DocumentAnnotation.t \notin {"str", "null"}
                  /\ SentImage(slot).ImageAnnotation.s = Marshal(env.result.DocumentAnnotation))
              => SameAnnotationFile(slot)

\* a run that wrote the annotation of the document, sent as a string, and
\* that of an image, sent as the object the string holds
C5_Witness ==
    /\ Answered /\ NoWriteFault /\ env.extractMetadata /\ pc = "done"
    /\ env.result.DocumentAnnotation = AnnObjectString
    /\ \E slot \in SoundSlots :
          /\ SentImage(slot).ImageAnnotation = AnnObject
          /\ SameAnnotationFile(slot)

(***************************************************************************)
(* C6: the fatal steps.                                                    *)
(***************************************************************************)
\* bodies that json.Unmarshal does not decode into an OCRResponse
UndecodableBody ==
    /\ env.bodyKind = "text"
    /\ env.text \in {<<"B", "a", "d", " ", "G", "a", "t", "e", "w", "a", "y">>, <<"n", "o", "t", " ", "j", "s", "o", "n">>, <<>>, <<"[", "]">>, <<"{", "\"", "p", "a", "g", "e", "s", "\"", ":", "1", "}">>,
                     <<"{", "\"", "p", "a", "g", "e", "s", "\"", ":", "[", "{", "\"", "i", "n", "d", "e", "x", "\"", ":", "\"", "0", "\"", "}", "]", "}">>}

\* the service did not answer with a response that decodes
NoResponse ==
    env.transportFails \/ env.readBodyFails \/ env.status # 200 \/ UndecodableBody

\* the document annotation cannot be written
DocumentAnnotationFault ==
    /\ env.bodyKind = "result"
    /\ \/ MalformedAnnotation(env.result.DocumentAnnotation)
       \/ env.result.DocumentAnnotation.t # "null" /\ "annotation" \in env.failWrite

\* the steps of run after the request, after the response, after the markdown
\* file and after the document annotation
AfterRequest == {"wait", "receive", "text", "annotation", "images", "image", "print", "done"}
AfterResponse == {"text", "annotation", "images", "image", "print", "done"}
AfterMarkdown == {"annotation", "images", "image", "print", "done"}
AfterDocumentAnnotation == {"images", "image", "print", "done"}

\* what holds in every state of a run
C6_State ==
    op = "run" =>
        /\ pc = "failed" => (exit = 1 /\ err # NoError /\ stdout = <<>>
                               /\ stderr[Len(stderr)] = <<"Error: ">> \o err)
        /\ stdout # <<>> => pc = "done"
        /\ pc \in AfterRequest => ~env.docReadFails
        /\ pc \in AfterResponse => ~NoResponse
        /\ pc \in AfterMarkdown => ("text" \notin env.failWrite /\ MarkdownWritten)
        /\ pc \in AfterDocumentAnnotation => ~DocumentAnnotationFault
        /\ ("text" \in env.failWrite \/ DocumentAnnotationFault) =>
              (DataPaths = {} /\ imagesDir \notin dirs)

\* what holds of every step of a run
C6_Step ==
    /\ pc # "failed"
    /\ (pc = "process" /\ env.docReadFails) => pc' = "failed"
    /\ (op = "run" /\ pc = "receive" /\ NoResponse) => pc' = "failed"
    /\ (pc = "text" /\ "text" \in env.failWrite) => pc' = "failed"
    /\ (pc = "annotation" /\ DocumentAnnotationFault) => pc' = "failed"
    /\ pc' = "failed" => (files' = files /\ dirs \subseteq dirs' /\ stdout' = stdout)

\* C6: an error in reading the document, submitting the request, decoding
\* the response, writing the markdown file or normalizing or writing the
\* document annotation ends the run at that step with exit code 1 and the
\* error on stderr; no step follows (after a document annotation failure no
\* image is written and no images directory made), the markdown path is not
\* printed, and the files written before stay as they are.
C6_Fatal == []C6_State /\ [][C6_Step]_vars

\* a run that failed at the document annotation, with the markdown file
\* written and images in the response
C6_Witness ==
    /\ op = "run" /\ pc = "failed"
    /\ DocumentAnnotationFault /\ MarkdownWritten /\ SentSlots # {}

(***************************************************************************)
(* C7: the annotation formats of the request.                              *)
(***************************************************************************)
\* {type: "json_schema", json_schema: {name, schema}}
Envelope(name, schema) ==
    MapOf(<<<<<<"t", "y", "p", "e">>, JStr(<<"j", "s", "o", "n", "_", "s", "c", "h", "e", "m", "a">>)>>,
            <<<<"j", "s", "o", "n", "_", "s", "c", "h", "e", "m", "a">>, MapOf(<<<<<<"n", "a", "m", "e">>, JStr(name)>>, <<<<"s", "c", "h", "e", "m", "a">>, schema>>>>)>>>>)

RequestSent == op = "run" /\ calls = 1

\* C7: the request carries bbox_annotation_format exactly when -m is given,
\* and then the envelope of the built-in schema "image_metadata"; it carries
\* document_annotation_format exactly when a document schema is given, and
\* then the envelope of that name and schema; a format that is not asked
\* for is no key of the request and no text of its body;
\* include_image_base64 is true.
C7_Formats ==
    RequestSent =>
        /\ request.t = "obj"
        /\ MapHas(request, <<"b", "b", "o", "x", "_", "a", "n", "n", "o", "t", "a", "t", "i", "o", "n", "_", "f", "o", "r", "m", "a", "t">>) <=> env.extractMetadata
        /\ env.extractMetadata =>
              MapGet(request, <<"b", "b", "o", "x", "_", "a", "n", "n", "o", "t", "a", "t", "i", "o", "n", "_", "f", "o", "r", "m", "a", "t">>)
                  = Envelope(<<"i", "m", "a", "g", "e", "_", "m", "e", "t", "a", "d", "a", "t", "a">>, ImageMetadataSchema.Schema)
        /\ (~env.extractMetadata /\ pc = "wait") => ~Contains(Marshal(request), <<"b", "b", "o", "x", "_", "a", "n", "n", "o", "t", "a", "t", "i", "o", "n", "_", "f", "o", "r", "m", "a", "t">>)
        /\ MapHas(request, <<"d", "o", "c", "u", "m", "e", "n", "t", "_", "a", "n", "n", "o", "t", "a", "t", "i", "o", "n", "_", "f", "o", "r", "m", "a", "t">>) <=> env.schemaFlag = "ok"
        /\ env.schemaFlag = "ok" =>
              MapGet(request, <<"d", "o", "c", "u", "m", "e", "n", "t", "_", "a", "n", "n", "o", "t", "a", "t", "i", "o", "n", "_", "f", "o", "r", "m", "a", "t">>)
                  = Envelope(env.schema.Name, env.schema.Schema)
        /\ (env.schemaFlag # "ok" /\ pc = "wait") => ~Contains(Marshal(request), <<"d", "o", "c", "u", "m", "e", "n", "t", "_", "a", "n", "n", "o", "t", "a", "t", "i", "o", "n", "_", "f", "o", "r", "m", "a", "t">>)
        /\ MapGet(request, <<"i", "n", "c", "l", "u", "d", "e", "_", "i", "m", "a", "g", "e", "_", "b", "a", "s", "e", "6", "4">>) = JBool(TRUE)

\* a request with both formats
C7_Witness ==
    /\ RequestSent /\ env.extractMetadata /\ env.schemaFlag = "ok"
    /\ MapHas(request, <<"b", "b", "o", "x", "_", "a", "n", "n", "o", "t", "a", "t", "i", "o", "n", "_", "f", "o", "r", "m", "a", "t">>)
    /\ MapHas(request, <<"d", "o", "c", "u", "m", "e", "n", "t", "_", "a", "n", "n", "o", "t", "a", "t", "i", "o", "n", "_", "f", "o", "r", "m", "a", "t">>)

(***************************************************************************)
(* C8: a status that is not 200.                                           *)
(***************************************************************************)
\* the status codes of the model in decimal
StatusDigits(status) ==
    IF status = 201 THEN <<"2", "0", "1">>
    ELSE IF status = 401 THEN <<"4", "0", "1">>
    ELSE IF status = 500 THEN <<"5", "0", "0">>
    ELSE <<"2", "0", "0">>

\* the call returned after an answer whose status is not 200
Refused ==
    /\ pc \in {"failed", "returned"}
    /\ calls = 1 /\ ~env.transportFails /\ ~env.readBodyFails
    /\ env.status # 200

\* C8: when the service answers with a status that is not 200, ProcessDocument
\* (and so run) and AnalyzeImage return the error "API error (status
\* <code>): <body>", which holds the status code in decimal and the body as
\* it was received, and no result: the response and the metadata are the
\* zero values and run writes no file.
C8_ApiError ==
    Refused =>
        /\ err = <<"API error (status ">> \o StatusDigits(env.status) \o <<"): ">> \o ReplyBody(env)
        /\ Contains(err, StatusDigits(env.status))
        /\ Contains(err, ReplyBody(env))
        /\ resp = ZeroResponse
        /\ metadata = ZeroMetadata
        /\ op = "run" => (exit = 1 /\ files = <<>> /\ stdout = <<>>)

\* a run refused with status 401 and a JSON body
C8_Witness ==
    /\ Refused /\ op = "run" /\ env.status = 401
    /\ env.bodyKind = "text" /\ Len(env.text) > 0

(***************************************************************************)
(* C9: the names of the image files.                                       *)
(***************************************************************************)
\* the bytes of the payloads of the model
PayloadBytes(payload) ==
    IF payload \in {PayloadRaw, PayloadWebP, PayloadPNG, PayloadComma} THEN <<65, 66, 67>>
    ELSE IF payload = PayloadJPEG THEN <<65, 66>>
    ELSE IF payload = PayloadGIF THEN <<65>>
    ELSE IF payload = PayloadSpellsJPEG THEN <<138, 102, 160, 123, 248, 233, 122, 0, 0>>
    ELSE <<>>

\* the images that are written in the first n iterations: those that decode
\* and whose write does not fail
WrittenSlots(n) ==
    {slot \in SoundSlots : RunningIndex(slot) < n /\ RunningIndex(slot) \notin env.failImage}

\* C9: the k-th image of the document (from 0, in page order and then in
\* image order) is written, when it decodes and its write succeeds, to
\* images/page_<index of its page>_img_<k><ext> with the bytes of its
\* payload, and no other image file is written; the running index is the
\* number of images gone through, failed ones included, whatever the ids
\* of the images.
C9_Naming ==
    (Answered /\ pc \in {"image", "print", "done"}) =>
        /\ pc = "image" => imgIndex = iter
        /\ pc \in {"print", "done"} /\ SentSlots # {} => imgIndex = Cardinality(SentSlots)
        /\ DataPaths = {SlotImagePath(slot) : slot \in WrittenSlots(imgIndex)}
        /\ \A slot \in WrittenSlots(imgIndex) :
              files[SlotImagePath(slot)] = FileData(PayloadBytes(SentImage(slot).ImageBase64))

\* a run that ended after an image that failed and, on a later page, an
\* image that was written, whose id does not hold its running index
C9_Witness ==
    /\ Answered /\ NoWriteFault /\ pc = "done"
    /\ \E bad \in CorruptSlots, good \in SoundSlots :
          /\ bad[1] < good[1]
          /\ RunningIndex(good) = 1
          /\ SentImage(good).ID = <<"i", "m", "g", "-", "0">>
          /\ SlotImagePath(good) \in DataPaths

(***************************************************************************)
(* C10: the data URL of the document.                                      *)
(***************************************************************************)
\* the MIME type a document declares by its extension
DeclaredMime(path) ==
    IF HasSuffix(path, <<".", "p", "d", "f">>) THEN <<"a", "p", "p", "l", "i", "c", "a", "t", "i", "o", "n", "/", "p", "d", "f">>
    ELSE IF HasSuffix(path, <<".", "p", "n", "g">>) THEN <<"i", "m", "a", "g", "e", "/", "p", "n", "g">>
    ELSE IF HasSuffix(path, <<".", "j", "p", "e", "g">>) \/ HasSuffix(path, <<".", "j", "p", "g">>) THEN <<"i", "m", "a", "g", "e", "/", "j", "p", "e", "g">>
    ELSE IF HasSuffix(path, <<".", "g", "i", "f">>) THEN <<"i", "m", "a", "g", "e", "/", "g", "i", "f">>
    ELSE <<"i", "m", "a", "g", "e", "/", "w", "e", "b", "p">>

\* the base64 text of the documents of the model
Base64Text(data) ==
    IF data = <<37>> THEN <<"J", "Q", "=", "=">>
    ELSE IF data = <<37, 80>> THEN <<"J", "V", "A", "=">>
    ELSE IF data = <<37, 80, 68, 70>> THEN <<"J", "V", "B", "E", "R", "g", "=", "=">>
    ELSE <<>>

DocumentURLSent == MapGet(MapGet(request, <<"d", "o", "c", "u", "m", "e", "n", "t">>), <<"d", "o", "c", "u", "m", "e", "n", "t", "_", "u", "r", "l">>)

\* C10: the document_url of the request is "data:<the MIME type the document
\* declares>;base64," followed by the base64 text of the document's bytes.
C10_DeclaredMime ==
    RequestSent =>
        DocumentURLSent
            = JStr(<<"d", "a", "t", "a", ":">> \o DeclaredMime(env.docPath) \o <<";", "b", "a", "s", "e", "6", "4", ",">> \o Base64Text(env.docData))

(***************************************************************************)
(* C11: a body without pages.                                              *)
(***************************************************************************)
\* bodies that are JSON and hold no pages field
BodyLacksPages ==
    /\ env.bodyKind = "text"
    /\ env.text \in {<<"{", "}">>, <<"{", "\"", "e", "r", "r", "o", "r", "\"", ":", " ", "\"", "i", "n", "v", "a", "l", "i", "d", " ", "a", "p", "i", " ", "k", "e", "y", "\"", "}">>}

\* submit returned after an answer with status 200
SubmitReturnedOn200 ==
    /\ op = "run" /\ calls = 1 /\ pc \notin {"wait", "receive"}
    /\ ~env.transportFails /\ ~env.readBodyFails /\ env.status = 200

\* C11: after a 200 response whose body holds no pages field (or one of the
\* wrong type, or is no JSON), submit fails with a decode error and returns
\* no result of zero pages.
C11_DecodeError ==
    (SubmitReturnedOn200 /\ (BodyLacksPages \/ UndecodableBody)) =>
        /\ pc = "failed"
        /\ err[1] = "unmarshaling response: "
        /\ resp = ZeroResponse
        /\ files = <<>>

(***************************************************************************)
(* C12: the extension of an image file.                                    *)
(***************************************************************************)
\* the extension the claim gives a payload: .jpg behind the JPEG data-URL
\* prefix, .png without a data-URL prefix
ClaimedExtensions(payload) ==
    IF HasPrefix(payload, <<"d", "a", "t", "a", ":", "i", "m", "a", "g", "e", "/", "j", "p", "e", "g", ";", "b", "a", "s", "e", "6", "4", ",">>) THEN {<<".", "j", "p", "g">>}
    ELSE IF ~HasPrefix(payload, <<"d", "a", "t", "a", ":">>) THEN {<<".", "p", "n", "g">>}
    ELSE {<<".", "j", "p", "g">>, <<".", "g", "i", "f">>, <<".", "w", "e", "b", "p">>, <<".", "p", "n", "g">>}

\* C12: an image whose payload begins with data:image/jpeg;base64, is
\* written to a .jpg file, and an image whose payload has no data-URL
\* prefix, whatever its characters, to a .png file.
C12_Extension ==
    (Answered /\ NoWriteFault /\ pc = "done") =>
        \A slot \in SoundSlots :
            \E ext \in ClaimedExtensions(SentImage(slot).ImageBase64) :
                SlotStem(slot) \o ext \in DataPaths

(***************************************************************************)
(* C13: the annotation file of an image.                                   *)
(***************************************************************************)
\* the images whose file is written: they decode and the write succeeds
ExtractedSlots == {slot \in SoundSlots : RunningIndex(slot) \notin env.failImage}

\* the images whose annotation is to be written: the image is written, -m
\* is given and the image has an annotation
MetadataDueSlots ==
    {slot \in ExtractedSlots : env.extractMetadata /\ SentImage(slot).ImageAnnotation.t # "null"}

\* the error lines of an annotation that does not normalize or is not written
MetadataFailureLine(slot) ==
    IF MalformedAnnotation(SentImage(slot).ImageAnnotation) THEN MetadataErrorLine(slot)
    ELSE <<"Error saving metadata for ">> \o SlotImagePath(slot)
             \o <<": ", "writing annotation: ", "write failed">>

MetadataFailedSlots ==
    {slot \in MetadataDueSlots : \/ MalformedAnnotation(SentImage(slot).ImageAnnotation)
                                 \/ RunningIndex(slot) \in env.failMeta}

MetadataErrorLines == {i \in 1..Len(stderr) : stderr[i][1] = "Error saving metadata for "}

\* C13: once the images are gone through, the file <image path without
\* extension>.json of an image exists if and only if the image was
\* extracted, -m was given, the image has an annotation that normalizes,
\* and the write of the file did not fail; a failure to normalize or to
\* write it is reported once, for that image, the image file stays, every
\* other image is treated as if nothing had failed, and the run succeeds.
C13_ImageAnnotation ==
    (Answered /\ pc \in {"print", "done"}) =>
        /\ \A slot \in SentSlots :
              SlotMetadataPath(slot) \in DOMAIN files
                  <=> slot \in MetadataDueSlots \ MetadataFailedSlots
        /\ \A slot \in MetadataFailedSlots :
              /\ SlotImagePath(slot) \in DataPaths
              /\ Cardinality({i \in MetadataErrorLines : stderr[i] = MetadataFailureLine(slot)}) = 1
        /\ Cardinality(MetadataErrorLines) = Cardinality(MetadataFailedSlots)
        /\ DataPaths = {SlotImagePath(slot) : slot \in ExtractedSlots}
        /\ err = NoError
        /\ pc = "done" => exit = 0

\* a run that ended with the annotation of the first image not written and
\* that of the second image written
C13_Witness ==
    /\ Answered /\ pc = "done" /\ env.extractMetadata
    /\ \E bad \in MetadataFailedSlots, good \in MetadataDueSlots \ MetadataFailedSlots :
          /\ RunningIndex(bad) < RunningIndex(good)
          /\ SlotImagePath(bad) \in DataPaths
          /\ SlotMetadataPath(bad) \notin DOMAIN files
          /\ SlotMetadataPath(good) \in DOMAIN files

(***************************************************************************)
(* C14: no retries.                                                        *)
(***************************************************************************)
\* what holds of the calls in every state
C14_State ==
    /\ calls \in {0, 1}
    /\ outstanding \in {0, 1}
    /\ outstanding <= calls
    /\ pc \in {"failed", "done", "returned"} => outstanding = 0
    /\ outstanding = 1 <=> pc = "wait"

\* what holds of the calls in every step
C14_Step ==
    /\ calls' # calls =>
          (calls = 0 /\ calls' = 1 /\ outstanding = 0 /\ pc \in {"process", "start"})
    /\ outstanding' > outstanding => calls' = calls + 1
    /\ pc \in {"wait", "receive", "text", "annotation", "images", "image", "print"} =>
          calls' = calls

\* C14: in every run (and in every AnalyzeImage) the endpoint is called at
\* most once, whatever the outcome of the call, and at most one call is
\* outstanding at any time: a call is made only when none was made before,
\* and no step after the call makes another.
C14_NoRetry == []C14_State /\ [][C14_Step]_vars

\* a run that failed on a transport failure, having called once
C14_Witness ==
    /\ op = "run" /\ pc = "failed" /\ env.transportFails
    /\ calls = 1 /\ outstanding = 0
    /\ err[1] = "sending request: "

(***************************************************************************)
(* C15: a document that cannot be read.                                    *)
(***************************************************************************)
\* the checks of run before the client is used pass
SetupPasses == env.docExists /\ env.apiKey /\ ~env.outDirFails /\ env.schemaFlag # "bad"

NothingSent ==
    calls = 0 /\ outstanding = 0 /\ request = JNull /\ httpResp = NoHTTP /\ resp = ZeroResponse

\* C15: when the document cannot be read (it does not exist or is not
\* readable), submit fails with the error "reading PDF file: open <path>:
\* <cause>", which names the file, and no HTTP request is sent; a run on a
\* path that does not exist sends no request either.
C15_ReadError ==
    /\ (op = "run" /\ SetupPasses /\ env.docReadFails /\ pc \notin {"start", "process"}) =>
          /\ pc = "failed"
          /\ err = <<"reading PDF file: ", "open ">> \o env.docPath \o <<": ", env.docReadCause>>
          /\ Contains(err, env.docPath)
          /\ NothingSent
    /\ (op = "run" /\ (~env.docExists \/ env.docReadFails)) => NothingSent

\* a run that failed at the read of scan.png, which is not readable
C15_Witness ==
    /\ op = "run" /\ pc = "failed" /\ SetupPasses /\ env.docReadFails
    /\ env.docReadCause = "permission denied"
    /\ err[1] = "reading PDF file: "
    /\ calls = 0

(***************************************************************************)
(* C16: metadata in a fenced code block.                                   *)
(***************************************************************************)
\* p in a fenced code block: the opening fence with or without a language
\* tag, with or without a newline after it, and the closing fence with or
\* without a newline before it
FencedForms(p) ==
    {Fence \o tag \o before \o p \o after \o Fence :
        tag \in {<<>>, <<"j", "s", "o", "n">>}, before \in {<<>>, <<"\n">>}, after \in {<<>>, <<"\n">>}}

\* the ImageMetadata of the two payloads of the model
MetadataOf(p) ==
    IF p = MetadataText THEN ImageMetadata(<<"d">>, <<"c", "h", "a", "r", "t">>, AnnObject)
    ELSE ImageMetadata(<<"d">>, <<"p", "h", "o", "t", "o">>, JNull)

\* AnalyzeImage returned after an answer with status 200
AnalyzeReturnedOn200 ==
    /\ op = "analyze" /\ pc = "returned"
    /\ ~env.transportFails /\ ~env.readBodyFails /\ env.status = 200

\* C16: a chat response whose content is a JSON payload p in a fenced code
\* block (with or without a language tag, with or without newlines around
\* p) gives the ImageMetadata that the response whose content is p gives.
C16_Fenced ==
    AnalyzeReturnedOn200 =>
        \A p \in {MetadataText, MetadataLines} :
            env.text \in {ChatBody(<<JStr(w)>>) : w \in FencedForms(p) \cup {p}} =>
                (err = NoError /\ metadata = MetadataOf(p))

(***************************************************************************)
(* C17: the path on stdout.                                                *)
(***************************************************************************)
\* the faults that end a run: those of C6 and the images directory
FatalFault ==
    \/ ~SetupPasses
    \/ env.docReadFails
    \/ NoResponse
    \/ "text" \in env.failWrite
    \/ DocumentAnnotationFault
    \/ env.bodyKind = "result" /\ SentSlots # {} /\ "imagesdir" \in env.failWrite

C17_State ==
    op = "run" =>
        /\ stdout \in {<<>>, <<textPath>>}
        /\ stdout = <<textPath>> <=> pc = "done"
        /\ pc = "done" <=> exit = 0
        /\ pc = "failed" <=> exit = 1
        /\ pc = "done" => ~FatalFault
        /\ pc = "failed" => FatalFault
        /\ pc = "image" => (Answered /\ iter < Cardinality(SentSlots))
        /\ pc = "print" => ENABLED PrintPath

C17_Step ==
    /\ pc \notin {"done", "failed", "returned"}
    /\ stdout' # stdout => (pc = "print" /\ pc' = "done" /\ stdout = <<>>)

\* C17: a run prints the path of the markdown file on stdout exactly once,
\* in its last step, if and only if it succeeds (exit code 0): it ends
\* with the path printed when no fatal fault occurs, whatever images or
\* image annotations fail, and with nothing on stdout when one does.
C17_PathPrinted == []C17_State /\ [][C17_Step]_vars

\* a run that printed the path although an image did not decode and the
\* annotation of another was not written
C17_Witness ==
    /\ Answered /\ pc = "done" /\ stdout = <<textPath>> /\ exit = 0
    /\ (CorruptSlots # {} \/ env.failImage # {})
    /\ MetadataFailedSlots # {}
    /\ Len(stderr) >= 2

(***************************************************************************)
(* C18: choices and content of a chat response.                            *)
(***************************************************************************)
\* bodies without a choice
ZeroChoiceBodies == {<<"{", "\"", "c", "h", "o", "i", "c", "e", "s", "\"", ":", "[", "]", "}">>, <<"{", "\"", "c", "h", "o", "i", "c", "e", "s", "\"", ":", "n", "u", "l", "l", "}">>, <<"{", "}">>}

\* bodies whose first choice has a content that is not a string
NonTextBodies ==
    {ChatBody(<<JNull>>), ChatBody(<<JNum(5)>>), ChatBody(<<JArr(<<JStr(MetadataText)>>)>>),
     ChatBody(<<JNull, JStr(MetadataText)>>)}

\* C18: after a 200 response that decodes, AnalyzeImage returns the error
\* "no response choices returned" when there is no choice and the error
\* "unexpected content type in response" when the content of the first
\* choice is not a string; no metadata is returned, and the error is not
\* that of parsing the content.
C18_Choices ==
    AnalyzeReturnedOn200 =>
        /\ env.text \in ZeroChoiceBodies =>
              (err = <<"no response choices returned">> /\ metadata = ZeroMetadata)
        /\ env.text \in NonTextBodies =>
              (err = <<"unexpected content type in response">> /\ metadata = ZeroMetadata)
        /\ env.text = ChatBody(<<JStr(MetadataText), JNull>>) =>
              (err = NoError /\ metadata = MetadataOf(MetadataText))

\* AnalyzeImage returned on a first choice without text, followed by a
\* choice with text
C18_Witness ==
    /\ AnalyzeReturnedOn200
    /\ env.text = ChatBody(<<JNull, JStr(MetadataText)>>)
    /\ err = <<"unexpected content type in response">>

(***************************************************************************)
(* C19: the Reporter.                                                      *)
(***************************************************************************)
\* the messages of Verbose
VerboseMessage(message) ==
    message[1] \in {"Wrote text to: ", "Wrote document annotation to: ", "Wrote image: "}

\* the step writes a message that begins with head, if emitted holds, and
\* nothing otherwise
Emits(emitted, head) ==
    IF emitted
    THEN /\ Len(progress') = Len(progress) + 1
         /\ SubSeq(progress', 1, Len(progress)) = progress
         /\ progress'[Len(progress')][1] = head
    ELSE progress' = progress

C19_State ==
    /\ env.quiet => progress = <<>>
    /\ ~env.verbose => \A i \in 1..Len(progress) : ~VerboseMessage(progress[i])
    /\ (op = "run" /\ ~env.quiet /\ pc \notin {"start", "failed"}) =>
          (Len(progress) >= 1 /\ progress[1] = <<"Processing: ">> \o env.docPath \o <<"\n">>)

C19_Step ==
    /\ (pc = "start" /\ pc' = "process") => Emits(~env.quiet, "Processing: ")
    /\ (pc = "receive" /\ pc' = "text") => Emits(~env.quiet, "Extracted ")
    /\ (pc = "text" /\ pc' = "annotation") => Emits(~env.quiet /\ env.verbose, "Wrote text to: ")
    /\ (pc = "annotation" /\ pc' = "images") =>
          Emits(~env.quiet /\ env.verbose /\ annotationPath \in DOMAIN files',
                "Wrote document annotation to: ")
    /\ (pc = "images" /\ pc' = "image") => Emits(~env.quiet, "Extracting ")
    /\ pc = "image" =>
          Emits(~env.quiet /\ env.verbose
                    /\ {f \in DOMAIN files' : files'[f].kind = "data"} # DataPaths,
                "Wrote image: ")
    /\ pc' = "failed" => progress' = progress

\* C19: a Reporter made with quiet emits nothing, from Progress or from
\* Verbose, with verbose given or not; a Reporter made without quiet emits
\* every Progress message, and a Verbose message if and only if verbose
\* was given.
C19_Reporter == []C19_State /\ [][C19_Step]_vars

\* a run with -q and -v that wrote an image and emitted nothing
C19_Witness ==
    /\ op = "run" /\ pc = "done" /\ env.quiet /\ env.verbose
    /\ DataPaths # {} /\ DocumentAnnotationWritten
    /\ progress = <<>>

(***************************************************************************)
(* C20: the first failing step of submit.                                  *)
(***************************************************************************)
\* the beginning of the error of the first step of submit that fails, in
\* the order read, send, read response, status, decode
FirstSubmitFault ==
    IF env.docReadFails THEN "reading PDF file: "
    ELSE IF env.transportFails THEN "sending request: "
    ELSE IF env.readBodyFails THEN "reading response: "
    ELSE IF env.status # 200 THEN "API error (status "
    ELSE IF UndecodableBody THEN "unmarshaling response: "
    ELSE "none"

SubmitFaults ==
    {"reading PDF file: ", "sending request: ", "reading response: ", "API error (status ",
     "unmarshaling response: "}

\* C20: submit returns the error of the first step that fails, in the order
\* read document, send, read response, check status, decode (serializing
\* the request cannot fail): a response that is not 200 is an API error
\* even when its body is a well-formed OCR result, a 200 response with an
\* undecodable body is a decode error, and without such a fault submit
\* returns none of these errors.
C20_FirstFault ==
    (op = "run" /\ SetupPasses /\ pc \notin {"start", "process", "wait", "receive"}) =>
        IF FirstSubmitFault = "none"
        THEN err = NoError \/ err[1] \notin SubmitFaults
        ELSE /\ pc = "failed"
             /\ err[1] = FirstSubmitFault
             /\ calls = (IF env.docReadFails THEN 0 ELSE 1)
             /\ resp = ZeroResponse

\* a run refused with status 500 although the body is a well-formed result
\* and the read of the body did not fail
C20_Witness ==
    /\ op = "run" /\ pc = "failed" /\ SetupPasses
    /\ ~env.docReadFails /\ ~env.transportFails /\ ~env.readBodyFails
    /\ env.status = 500 /\ env.bodyKind = "result" /\ env.result = SoundResponse
    /\ err[1] = "API error (status "

(***************************************************************************)
(* C21: what of a payload is base64-decoded.                               *)
(***************************************************************************)
\* the length of a leading data:<mime>;base64, prefix of a payload, 0 when
\* the payload has none
DataURLPrefixLen(payload) ==
    IF HasPrefix(payload, <<"d", "a", "t", "a", ":">>) /\ Index(payload, <<";", "b", "a", "s", "e", "6", "4", ",">>) # -1
    THEN Index(payload, <<";", "b", "a", "s", "e", "6", "4", ",">>) + Len(<<";", "b", "a", "s", "e", "6", "4", ",">>)
    ELSE 0

\* the images whose payload, once a leading data:<mime>;base64, prefix is
\* taken off and otherwise as a whole, is not base64
UndecodableSlots ==
    {slot \in SentSlots :
        DecodeString(SliceFrom(SentImage(slot).ImageBase64,
                               DataURLPrefixLen(SentImage(slot).ImageBase64))).err}

\* C21: only a leading data:<mime>;base64, prefix is taken off a payload
\* before it is decoded, and a payload without it is decoded as a whole: once
\* the images are gone through, every image whose payload is not base64 in
\* this reading (one with a comma that is no part of such a prefix, say) has
\* an image decode error and no image file.
C21_WholeDecode ==
    (Answered /\ pc \in {"print", "done"}) =>
        /\ Cardinality(DecodeErrorLines) = Cardinality(UndecodableSlots)
        /\ \A slot \in UndecodableSlots :
              \A f \in DataPaths : ~HasPrefix(f, SlotStem(slot))

(***************************************************************************)
(* C22: the document annotation file.                                      *)
(***************************************************************************)
\* the service answered 200 with a response, sent as a result or as the
\* body with the null annotation
AnsweredOK ==
    /\ op = "run"
    /\ env.docExists /\ env.apiKey /\ ~env.outDirFails /\ env.schemaFlag # "bad"
    /\ ~env.docReadFails /\ ~env.transportFails /\ ~env.readBodyFails
    /\ env.status = 200
    /\ env.bodyKind = "result" \/ env.text = NullAnnotationBody

\* the document annotation the response carries: JNull when the key is
\* absent or null
CarriedAnnotation ==
    IF env.bodyKind = "result" THEN env.result.DocumentAnnotation ELSE JNull

\* the run is past the step that writes the document annotation
AnnotationStepOver ==
    \/ pc \in {"images", "image", "print", "done"}
    \/ pc = "failed" /\ MarkdownWritten

DocumentAnnotationError == err # NoError /\ err[1] = "writing document annotation: "

\* C22 as stated: <basename>.annotation.json is written if and only if the
\* response carries a document annotation, whether a schema was asked for or
\* not; an annotation that is absent or null gives no file and no error.
C22_AsStated ==
    (AnsweredOK /\ AnnotationStepOver) =>
        /\ DocumentAnnotationWritten <=> CarriedAnnotation.t # "null"
        /\ CarriedAnnotation.t = "null" => ~DocumentAnnotationError

\* C22, amended: <basename>.annotation.json is written if and only if the
\* response carries a document annotation that normalizes and the write does
\* not fail, whether a schema was asked for or not; a carried annotation that
\* is not written fails the run with a document annotation error; an
\* annotation that is absent or null gives no file and no such error.
C22_DocumentAnnotation ==
    (AnsweredOK /\ AnnotationStepOver) =>
        /\ DocumentAnnotationWritten <=>
              /\ CarriedAnnotation.t # "null"
              /\ ~MalformedAnnotation(CarriedAnnotation)
              /\ "annotation" \notin env.failWrite
        /\ (CarriedAnnotation.t # "null" /\ ~DocumentAnnotationWritten) =>
              (pc = "failed" /\ DocumentAnnotationError)
        /\ CarriedAnnotation.t = "null" => ~DocumentAnnotationError

\* a run that wrote the document annotation though no schema was asked for
C22_Witness ==
    /\ AnsweredOK /\ pc = "done"
    /\ env.schemaFlag = "none"
    /\ CarriedAnnotation.t # "null"
    /\ DocumentAnnotationWritten

(***************************************************************************)
(* C23: the order of the writes.                                           *)
(***************************************************************************)
\* the files under <outDir>/images: image files and their annotation files
ImageArtifacts ==
    {f \in DOMAIN files : HasPrefix(f, env.outDir \o <<"/", "i", "m", "a", "g", "e", "s", "/">>)}

\* C23: the markdown file is written before the document annotation, and
\* the document annotation before any file of an image: in every state, a
\* document annotation file implies the markdown file, and a file of an
\* image implies the markdown file, the images directory and, if the
\* response carries a document annotation, the document annotation file; the
\* run writes no other file, and takes no file away.
C23_State ==
    op = "run" =>
        /\ DocumentAnnotationWritten => MarkdownWritten
        /\ ImageArtifacts # {} =>
              /\ MarkdownWritten
              /\ imagesDir \in dirs
              /\ env.result.DocumentAnnotation.t # "null" => DocumentAnnotationWritten
        /\ DOMAIN files \subseteq {textPath, annotationPath} \cup ImageArtifacts

C23_Step == DOMAIN files \subseteq DOMAIN files'

C23_WriteOrder == []C23_State /\ [][C23_Step]_vars

\* the image loop under way, an image file written, after the markdown file
\* and the document annotation the response carries
C23_Witness ==
    /\ Answered /\ pc = "image"
    /\ \E f \in ImageArtifacts : files[f].kind = "data"
    /\ env.result.DocumentAnnotation.t # "null"
    /\ DocumentAnnotationWritten
    /\ MarkdownWritten

(***************************************************************************)
(* C24: no file is written twice.                                          *)
(***************************************************************************)
\* the lines of stderr that report an image that was not written
ImageErrorLines == {i \in 1..Len(stderr) : stderr[i][1] = "Error: "}

\* C24: no file is overwritten within a run: a file once written is never
\* written again; any two distinct images of the response have distinct
\* image file paths and distinct annotation file paths, even on pages of the
\* same index and with the same id; and every image is gone through exactly
\* once: when the loop is over, it has run once for each image, and each
\* image has either its own file or one error line.
C24_State ==
    (Answered /\ pc \in {"print", "done"}) =>
        /\ iter = Cardinality(SentSlots)
        /\ imgIndex = Cardinality(SentSlots)
        /\ \A a, b \in SentSlots :
              a # b => /\ SlotImagePath(a) # SlotImagePath(b)
                       /\ SlotMetadataPath(a) # SlotMetadataPath(b)
        /\ Cardinality(DataPaths) = Cardinality(ExtractedSlots)
        /\ \A slot \in ExtractedSlots : SlotImagePath(slot) \in DataPaths
        /\ Cardinality(ImageErrorLines) = Cardinality(SentSlots \ ExtractedSlots)

C24_Step ==
    /\ \A f \in DOMAIN files : f \in DOMAIN files' /\ files'[f] = files[f]
    /\ (pc = "image" /\ Answered) =>
          /\ iter' = iter + 1
          /\ Cardinality(DOMAIN files' \ DOMAIN files) \in 0..2
          /\ Cardinality(DataPaths') - Cardinality(DataPaths) \in 0..1

C24_NoOverwrite == []C24_State /\ [][C24_Step]_vars

\* a run that wrote, with their annotation files, two images of the same id
\* on two pages of the same index
C24_Witness ==
    /\ Answered /\ pc = "done" /\ env.extractMetadata
    /\ \E a, b \in ExtractedSlots :
          /\ a # b
          /\ SentPages[a[1]].Index = SentPages[b[1]].Index
          /\ SentImage(a).ID = SentImage(b).ID
          /\ ExtensionOf(SentImage(a).ImageBase64) = ExtensionOf(SentImage(b).ImageBase64)
          /\ {SlotImagePath(a), SlotImagePath(b), SlotMetadataPath(a), SlotMetadataPath(b)}
                \subseteq DOMAIN files
    /\ Cardinality(DOMAIN files) = 5

(***************************************************************************)
(* C25: termination.                                                       *)
(***************************************************************************)
\* the run is over, with the path printed and exit code 0
SuccessOutcome == pc = "done" /\ exit = 0 /\ stdout = <<textPath>> /\ err = NoError

\* the run is over, with an error returned and exit code 1
ErrorOutcome == pc = "failed" /\ exit = 1 /\ stdout = <<>> /\ err # NoError

C25_State ==
    op = "run" =>
        /\ pc \in {"done", "failed"} => (SuccessOutcome \/ ErrorOutcome)
        /\ (imagesDir \in dirs \/ pc = "image") => (Answered /\ SentSlots # {})
        /\ pc = "image" => (imagesDir \in dirs /\ iter < Cardinality(SentSlots))
        /\ Running => pc \in {"start", "process", "wait", "receive", "text", "annotation",
                                "images", "image", "print"}
        /\ pc = "start" => ENABLED Setup
        /\ pc = "text" => ENABLED WriteText
        /\ pc = "images" => ENABLED StartImages
        /\ pc = "print" => ENABLED PrintPath

\* no step is taken once the run is over
C25_Step == pc \notin {"done", "failed"}

\* C25: every run ends, given that the remote call returns: whatever the
\* response and whichever writes and images fail, the run reaches the
\* success outcome (the path printed, exit code 0) or an error outcome (an
\* error returned, exit code 1) and stays there; a run that is not over
\* stands at a step of run, and in the image loop only while an image is
\* left; the images directory is made, and the image loop entered, only
\* when the response holds at least one image.
C25_Terminates ==
    /\ (op = "run") ~> (SuccessOutcome \/ ErrorOutcome)
    /\ []C25_State
    /\ [][C25_Step]_vars

\* a run over a response with images, one of which fails, that reached the
\* success outcome
C25_Witness ==
    /\ Answered /\ SuccessOutcome
    /\ ExtractedSlots # {}
    /\ SentSlots \ ExtractedSlots # {}
    /\ env.failMeta # {}
    /\ imagesDir \in dirs

====
